---------------------------- MODULE Spec2Model ----------------------------
(***************************************************************************)
(* SKU drill-down dashboards of odaysalim/sku_app: the numeric coercers,   *)
(* the row normalizers, the aggregation (grouped / chartData), the         *)
(* rank-relative encoder (colorized) and the drill-path handlers of the    *)
(* dashboard components found in src/src/App.jsx and src/unnamed/part_00*. *)
(*                                                                         *)
(* JavaScript values are tagged records:                                   *)
(*   [t |-> "num", n, d, e]  the finite number (n / d) * 10^e, d > 0       *)
(*   [t |-> "nan"]           NaN                                           *)
(*   [t |-> "undef"]         undefined (also: an absent property)          *)
(*   [t |-> "null"]          null                                          *)
(*   [t |-> "obj"]           any other non-string, non-number value        *)
(*   [t |-> "str", s]        a string, s the tuple of its characters       *)
(* Dimension values (category, sub_category, item) are TLA+ strings; the   *)
(* empty string is the falsy one.                                          *)
(***************************************************************************)
EXTENDS Integers, Sequences, FiniteSets, TLC

(***************************************************************************)
(* Bounds of the model.                                                    *)
(***************************************************************************)
MaxIntDigits == 2      \* digits before the decimal point of a generated text
MaxFracDigits == 1     \* digits after the decimal point of a generated text
MaxTextLen == 2        \* length of an arbitrary (unstructured) cell text
MaxRows == 3           \* raw rows in one source table
MaxUploads == 1        \* file uploads in flight at once

(***************************************************************************)
(* JavaScript numbers.                                                     *)
(***************************************************************************)
Abs(x) == IF x < 0 THEN -x ELSE x

Min2(a, b) == IF a <= b THEN a ELSE b

RECURSIVE Pow10(_)
Pow10(k) == IF k <= 0 THEN 1 ELSE 10 * Pow10(k - 1)

RECURSIVE Gcd(_, _)
Gcd(a, b) == IF b = 0 THEN a ELSE Gcd(b, a % b)

\* trailing zeros of the numerator move to the exponent
RECURSIVE StripZeros(_, _, _)
StripZeros(n, d, e) ==
  IF n # 0 /\ n % 10 = 0
    THEN StripZeros(n \div 10, d, e + 1)
    ELSE [t |-> "num", n |-> n, d |-> d, e |-> e]

Zero == [t |-> "num", n |-> 0, d |-> 1, e |-> 0]
One == [t |-> "num", n |-> 1, d |-> 1, e |-> 0]
Half == [t |-> "num", n |-> 1, d |-> 2, e |-> 0]

\* the number (n / d) * 10^e, d # 0, in reduced form
MkNum(n, d, e) ==
  LET Reduced(a, b, g) == StripZeros(a \div g, b \div g, e)
      Signed(mag, neg) == [mag EXCEPT !.n = IF neg THEN -mag.n ELSE mag.n]
  IN  IF n = 0 THEN Zero
      ELSE Signed(Reduced(Abs(n), Abs(d), Gcd(Abs(n), Abs(d))), (n < 0) # (d < 0))

Int2Num(k) == MkNum(k, 1, 0)
NaN == [t |-> "nan"]
Undefined == [t |-> "undef"]
Null == [t |-> "null"]
Obj == [t |-> "obj"]
Str(s) == [t |-> "str", s |-> s]

IsNum(v) == v.t = "num"

NumAdd(a, b) ==
  LET AddAt(e0) ==
        MkNum(a.n * Pow10(a.e - e0) * b.d + b.n * Pow10(b.e - e0) * a.d, a.d * b.d, e0)
  IN  AddAt(Min2(a.e, b.e))

NumNeg(a) == [a EXCEPT !.n = -a.n]
NumSub(a, b) == NumAdd(a, NumNeg(b))
NumSign(a) == IF a.n > 0 THEN 1 ELSE IF a.n < 0 THEN -1 ELSE 0
NumEq(a, b) == NumSign(NumSub(a, b)) = 0
NumLess(a, b) == NumSign(NumSub(a, b)) < 0
\* a / b for b # 0
NumDiv(a, b) == MkNum(a.n * b.d, a.d * b.n, a.e - b.e)
NumScale(a, k) == MkNum(a.n, a.d, a.e + k)
NumMul(a, b) == MkNum(a.n * b.n, a.d * b.d, a.e + b.e)

\* floor of a non-negative number
NumFloor(a) ==
  IF a.e >= 0 THEN (a.n * Pow10(a.e)) \div a.d
  ELSE a.n \div (a.d * Pow10(-a.e))

(***************************************************************************)
(* Strings as tuples of one-character strings.                             *)
(***************************************************************************)
DigitChars == {"0", "1", "2", "3", "4", "5", "6", "7", "8", "9"}

DigitVal(c) ==
  CASE c = "0" -> 0 [] c = "1" -> 1 [] c = "2" -> 2 [] c = "3" -> 3
    [] c = "4" -> 4 [] c = "5" -> 5 [] c = "6" -> 6 [] c = "7" -> 7
    [] c = "8" -> 8 [] c = "9" -> 9

IsSpace(c) == c \in {" ", "\t"}

RECURSIVE TrimLeft(_)
TrimLeft(s) == IF s # <<>> /\ IsSpace(Head(s)) THEN TrimLeft(Tail(s)) ELSE s

RECURSIVE TrimRight(_)
TrimRight(s) ==
  IF s # <<>> /\ IsSpace(s[Len(s)]) THEN TrimRight(SubSeq(s, 1, Len(s) - 1)) ELSE s

\* String.prototype.trim
trim(s) == TrimRight(TrimLeft(s))

\* s.replace(/,/g, "")
RECURSIVE RemoveCommas(_)
RemoveCommas(s) ==
  IF s = <<>> THEN <<>>
  ELSE IF Head(s) = "," THEN RemoveCommas(Tail(s))
  ELSE <<Head(s)>> \o RemoveCommas(Tail(s))

LowerChar(c) ==
  CASE c = "K" -> "k" [] c = "M" -> "m" [] c = "B" -> "b" [] c = "X" -> "x"
    [] c = "S" -> "s" [] c = "U" -> "u" [] c = "C" -> "c" [] c = "A" -> "a"
    [] c = "T" -> "t" [] c = "E" -> "e" [] c = "G" -> "g" [] c = "O" -> "o"
    [] c = "R" -> "r" [] c = "Y" -> "y"
    [] OTHER -> c

\* String.prototype.toLowerCase
toLowerCase(s) == [i \in 1..Len(s) |-> LowerChar(s[i])]

\* length of the longest prefix of s made of digits
RECURSIVE DigitRun(_)
DigitRun(s) ==
  IF s # <<>> /\ Head(s) \in DigitChars THEN 1 + DigitRun(Tail(s)) ELSE 0

RECURSIVE DigitsVal(_, _)
DigitsVal(s, acc) ==
  IF s = <<>> THEN acc ELSE DigitsVal(Tail(s), acc * 10 + DigitVal(Head(s)))

Drop(s, k) == SubSeq(s, k + 1, Len(s))
Take(s, k) == SubSeq(s, 1, k)

HasMinus(s) == s # <<>> /\ Head(s) = "-"
HasPoint(s) == s # <<>> /\ Head(s) = "."

\* s.match(/^(-?\d+(?:\.\d+)?)([kKmMbB])?$/): the groups, or ok = FALSE
NumericMatch(s, suffixes) ==
  LET NoMatch == [ok |-> FALSE, neg |-> FALSE, int |-> <<>>, frac |-> <<>>, suf |-> ""]
      \* the end anchor: nothing may follow the groups
      MatchEnd(neg, int, frac, suf, rest) ==
        IF int # <<>> /\ rest = <<>>
          THEN [ok |-> TRUE, neg |-> neg, int |-> int, frac |-> frac, suf |-> suf]
          ELSE NoMatch
      HasSuffix(t) == t # <<>> /\ Head(t) \in suffixes
      \* ([kKmMbB])?
      MatchSuffix(neg, int, frac, t) ==
        MatchEnd(neg, int, frac,
                 IF HasSuffix(t) THEN Head(t) ELSE "",
                 IF HasSuffix(t) THEN Tail(t) ELSE t)
      HasFraction(t) == Len(t) >= 2 /\ Head(t) = "." /\ DigitRun(Tail(t)) > 0
      \* (?:\.\d+)?
      MatchFraction(neg, int, t) ==
        MatchSuffix(neg, int,
                    IF HasFraction(t) THEN Take(Tail(t), DigitRun(Tail(t))) ELSE <<>>,
                    IF HasFraction(t) THEN Drop(t, DigitRun(Tail(t)) + 1) ELSE t)
      \* \d+
      MatchDigits(neg, t) == MatchFraction(neg, Take(t, DigitRun(t)), Drop(t, DigitRun(t)))
  IN  MatchDigits(HasMinus(s), IF HasMinus(s) THEN Tail(s) ELSE s)

\* parseFloat(m[1]) for the first group of a successful match
parseFloatGroup(m) ==
  MkNum((IF m.neg THEN -1 ELSE 1) * DigitsVal(m.int \o m.frac, 0), 1, -Len(m.frac))

\* mutant: the upper-case suffixes are missing from the table
MultExp_LowerOnly(suf) ==
  CASE suf = "k" -> 3
    [] suf = "m" -> 6
    [] suf = "b" -> 9
    [] OTHER -> 0

\* { k: 1e3, K: 1e3, m: 1e6, M: 1e6, b: 1e9, B: 1e9 }[m[2]] || 1, as a power of ten
MultExp(suf) ==
  CASE suf \in {"k", "K"} -> 3
    [] suf \in {"m", "M"} -> 6
    [] suf \in {"b", "B"} -> 9
    [] OTHER -> 0

StrictSuffixes == {"k", "K", "m", "M", "b", "B"}

\* toNumberStrict of src/src/App.jsx: NaN when not numeric
toNumberStrict(v) ==
  LET MatchValue(m) == IF m.ok THEN NumScale(parseFloatGroup(m), MultExp(m.suf)) ELSE NaN
      StrictText(s) == IF s = <<>> THEN NaN ELSE MatchValue(NumericMatch(s, StrictSuffixes))
  IN  IF v.t = "num" THEN v
      ELSE IF v.t # "str" THEN NaN
      ELSE StrictText(RemoveCommas(trim(v.s)))

DigitChar(k) ==
  CASE k = 0 -> "0" [] k = 1 -> "1" [] k = 2 -> "2" [] k = 3 -> "3"
    [] k = 4 -> "4" [] k = 5 -> "5" [] k = 6 -> "6" [] k = 7 -> "7"
    [] k = 8 -> "8" [] k = 9 -> "9"

RECURSIVE DigitsOf(_)
DigitsOf(k) ==
  IF k < 10 THEN <<DigitChar(k)>> ELSE DigitsOf(k \div 10) \o <<DigitChar(k % 10)>>

RECURSIVE Zeros(_)
Zeros(k) == IF k <= 0 THEN <<>> ELSE <<"0">> \o Zeros(k - 1)

\* String(x) of a finite decimal number x (d = 1, 1e-6 <= |x| < 1e21 or x = 0)
NumToText(x) ==
  LET Fixed(ds, k) ==
        IF Len(ds) > k
          THEN Take(ds, Len(ds) - k) \o <<".">> \o Drop(ds, Len(ds) - k)
          ELSE <<"0", ".">> \o Zeros(k - Len(ds)) \o ds
      Magnitude(ds) == IF x.e >= 0 THEN ds \o Zeros(x.e) ELSE Fixed(ds, -x.e)
  IN  (IF x.n < 0 THEN <<"-">> ELSE <<>>) \o Magnitude(DigitsOf(Abs(x.n)))

\* String(v)
JSString(v) ==
  CASE v.t = "str" -> v.s
    [] v.t = "num" -> NumToText(v)
    [] v.t = "nan" -> <<"N", "a", "N">>
    [] v.t = "undef" -> <<"u", "n", "d", "e", "f", "i", "n", "e", "d">>
    [] v.t = "null" -> <<"n", "u", "l", "l">>
    [] OTHER -> <<"[", "o", "b", "j", "e", "c", "t", " ", "O", "b", "j", "e", "c", "t", "]">>

\* Number(s) of a string without exponent, hex or Infinity notation:
\* whitespace is trimmed, "" is 0, then [+-] digits [. digits] or [+-] . digits
JSNumber(s) ==
  LET NumberEnd(neg, int, frac, rest) ==
        IF int \o frac # <<>> /\ rest = <<>>
          THEN MkNum((IF neg THEN -1 ELSE 1) * DigitsVal(int \o frac, 0), 1, -Len(frac))
          ELSE NaN
      NumberFraction(neg, int, t) ==
        NumberEnd(neg, int,
                  IF HasPoint(t) THEN Take(Tail(t), DigitRun(Tail(t))) ELSE <<>>,
                  IF HasPoint(t) THEN Drop(Tail(t), DigitRun(Tail(t))) ELSE t)
      NumberDigits(neg, t) ==
        NumberFraction(neg, Take(t, DigitRun(t)), Drop(t, DigitRun(t)))
      NumberText(t) ==
        IF t = <<>> THEN Zero
        ELSE NumberDigits(Head(t) = "-", IF Head(t) \in {"-", "+"} THEN Tail(t) ELSE t)
  IN  NumberText(trim(s))

\* x || 0 for a number x
OrZero(x) == IF x.t = "num" /\ x.n # 0 THEN x ELSE Zero

LooseSuffixes == {"k", "m", "b"}

\* toNumber of src/unnamed/part_000 (the same in part_001:36 and part_002:447)
toNumber(v) ==
  LET LooseValue(m, s) ==
        IF m.ok THEN NumScale(parseFloatGroup(m), MultExp(LowerChar(m.suf)))
        ELSE OrZero(JSNumber(s))
      LooseText(s) == LooseValue(NumericMatch(s, LooseSuffixes \cup {"K", "M", "B"}), s)
  IN  IF v.t \in {"null", "undef"} THEN Zero
      ELSE LooseText(RemoveCommas(toLowerCase(trim(JSString(v)))))

(***************************************************************************)
(* State.                                                                  *)
(***************************************************************************)
VARIABLES
  variant,           \* which dashboard component is mounted
  rows,              \* rows / data: the working set
  drillPath,         \* the drill path
  availableMetrics,  \* the metric catalog
  selectedMetric,    \* the selected metric
  selectedLeaf,      \* the item opened in the SKU table (part_002 67-406)
  isLoading,         \* the loading flag
  error,             \* the error message ("" when none)
  pending,           \* the asynchronous loads in flight
  lastOp,            \* the handler that ran last (history)
  prevPath,          \* the drill path before that handler ran (history)
  lastLoad,          \* the table the last load was given (history)
  cIn,               \* a value handed to the numeric coercers
  cParts,            \* the parts cIn's text was written from, if any
  cStrict,           \* toNumberStrict(cIn) once computed
  cLoose,            \* toNumber(cIn) once computed
  chart,             \* the chart memo of a render once computed
  hdr,               \* the header of the sub-category column in the source file
  hdrOut             \* the rows a normalizer retains under that header, once run

dashVars == <<variant, rows, drillPath, availableMetrics, selectedMetric,
              selectedLeaf, isLoading, error, pending, lastOp, prevPath, lastLoad>>
numVars == <<cIn, cParts, cStrict, cLoose>>
hdrVars == <<hdr, hdrOut>>
pureVars == <<numVars, chart, hdrVars>>
vars == <<dashVars, pureVars>>

Pending == [t |-> "pending"]

\* the header sub_category
CanonicalHeader == <<"s", "u", "b", "_", "c", "a", "t", "e", "g", "o", "r", "y">>

(***************************************************************************)
(* The numeric coercers applied to bounded inputs.                         *)
(***************************************************************************)
\* the characters of an arbitrary cell text
CellChars == {"1", "0", "-", ".", ",", " ", "k", "M", "x"}

RECURSIVE TextsUpTo(_, _)
TextsUpTo(chars, k) ==
  IF k = 0 THEN {<<>>}
  ELSE LET shorter == TextsUpTo(chars, k - 1)
       IN  shorter \cup {<<c>> \o s : c \in chars, s \in {x \in shorter : Len(x) = k - 1}}

PartDigits == {"0", "1", "5"}

NoParts == [ok |-> FALSE]

\* the parts of a numeric text: sign, digits, fraction, suffix, a thousands
\* comma after the first digit, surrounding blanks
GeneratedParts ==
  [ok : {TRUE}, neg : BOOLEAN,
   int : TextsUpTo(PartDigits, MaxIntDigits) \ {<<>>},
   frac : TextsUpTo(PartDigits, MaxFracDigits),
   suf : {""} \cup StrictSuffixes, comma : BOOLEAN, pad : BOOLEAN]

Part(neg, int, frac, suf, comma) ==
  [ok |-> TRUE, neg |-> neg, int |-> int, frac |-> frac, suf |-> suf,
   comma |-> comma, pad |-> FALSE]

\* "1,234", "2.5k", "-1.2M"
ExampleParts ==
  { Part(FALSE, <<"1", "2", "3", "4">>, <<>>, "", TRUE),
    Part(FALSE, <<"2">>, <<"5">>, "k", FALSE),
    Part(TRUE, <<"1">>, <<"2">>, "M", FALSE) }

\* the text written from the parts
FormatParts(p) ==
  LET int == IF p.comma /\ Len(p.int) >= 2
               THEN <<Head(p.int), ",">> \o Tail(p.int) ELSE p.int
      body == (IF p.neg THEN <<"-">> ELSE <<>>) \o int
              \o (IF p.frac = <<>> THEN <<>> ELSE <<".">> \o p.frac)
              \o (IF p.suf = "" THEN <<>> ELSE <<p.suf>>)
  IN  IF p.pad THEN <<" ">> \o body \o <<" ", " ">> ELSE body

CoercerInputs ==
  {[in |-> Str(FormatParts(p)), parts |-> p] : p \in GeneratedParts \cup ExampleParts}
  \cup {[in |-> Str(s), parts |-> NoParts] : s \in TextsUpTo(CellChars, MaxTextLen)}
  \cup {[in |-> v, parts |-> NoParts] : v \in {Null, Undefined, Obj, NaN, Zero}}

CoerceStrict ==
  /\ cStrict = Pending
  /\ cStrict' = toNumberStrict(cIn)
  /\ UNCHANGED <<dashVars, cIn, cParts, cLoose, chart, hdrVars>>

CoerceLoose ==
  /\ cLoose = Pending
  /\ cLoose' = toNumber(cIn)
  /\ UNCHANGED <<dashVars, cIn, cParts, cStrict, chart, hdrVars>>

NextNum == CoerceStrict \/ CoerceLoose

(***************************************************************************)
(* The dashboard components.                                               *)
(***************************************************************************)
\* App_csv      src/src/App.jsx 7-476        upload, own CSV splitting
\* App          src/src/App.jsx 531-773      autoload
\* P000         src/unnamed/part_000         upload
\* P001_opco    src/unnamed/part_001 17-800  upload, OpCo series
\* P001_auto    src/unnamed/part_001 813-1145  autoload and upload
\* P002_leaf    src/unnamed/part_002 67-406  autoload, leaf SKU table
\* P002_upload  src/unnamed/part_002 423-940 upload
\* P002_detect  src/unnamed/part_002 990-1278  autoload and upload
UploadVariants == {"App_csv", "P000", "P001_opco", "P002_upload"}
AutoloadVariants == {"App", "P001_auto", "P002_leaf", "P002_detect"}
Variants == UploadVariants \cup AutoloadVariants

BaseMeasures == <<"Revenue", "Margin", "Cost", "No of Transactions">>
DefaultMetrics == <<"Margin", "Revenue", "Cost", "No of Transactions">>

\* useState(...) of the component
InitialMetrics(v) == IF v \in UploadVariants THEN DefaultMetrics ELSE <<>>

InitialSelected(v) ==
  CASE v \in {"App", "P002_leaf", "P001_opco"} -> "Margin %"
    [] v = "P001_auto" -> "Revenue"
    [] v = "P002_detect" -> ""
    [] OTHER -> "Margin"

\* a handler run: its name, the bar or crumb name and the crumb index
Ran(op, name, k) == [op |-> op, name |-> name, k |-> k]

\* the state after the first render and its mount effect: the autoload
\* components have set isLoading and started the fetch of the default file
Constructed(v) ==
  /\ variant = v
  /\ rows = <<>>
  /\ drillPath = <<>>
  /\ availableMetrics = InitialMetrics(v)
  /\ selectedMetric = InitialSelected(v)
  /\ selectedLeaf = Null
  /\ isLoading = (v \in AutoloadVariants)
  /\ error = ""
  /\ pending = [autoload |-> v \in AutoloadVariants, uploads |-> 0]
  /\ lastOp = Ran("init", Null, 0)
  /\ prevPath = <<>>
  /\ lastLoad = Null

InitNum ==
  /\ Constructed("App")
  /\ \E c \in CoercerInputs : cIn = c.in /\ cParts = c.parts
  /\ cStrict = Pending
  /\ cLoose = Pending
  /\ chart = Pending
  /\ hdr = CanonicalHeader
  /\ hdrOut = Pending

SpecNum == InitNum /\ [][NextNum]_vars

(***************************************************************************)
(* Source tables: the rows the CSV parser hands over (header: true,        *)
(* dynamicTyping: false, so every cell is a string).  The headers are      *)
(* category, sub_category, item, sku_code, Revenue, Margin, Cost and       *)
(* No of Transactions.                                                     *)
(***************************************************************************)
Measures == {"Revenue", "Margin", "Cost", "No of Transactions"}
MarginPct == "Margin %"

RawRow(cat, sub, item, rev, mar, cost, ntx) ==
  [category |-> Str(cat), sub_category |-> Str(sub), item |-> Str(item),
   sku_code |-> Str(<<"S", "1">>),
   m |-> [x \in Measures |->
            Str(CASE x = "Revenue" -> rev [] x = "Margin" -> mar
                  [] x = "Cost" -> cost [] OTHER -> ntx)]]

RawOrder ==
  << RawRow(<<"A">>, <<"X">>, <<"I", "1">>, <<"1", "0", "0">>, <<"2", "0">>, <<"8", "0">>, <<"3">>),
     RawRow(<<"A">>, <<"X">>, <<"I", "2">>, <<"5", "0">>, <<"-", "1", "0">>, <<>>, <<>>),
     RawRow(<<"A">>, <<"Y">>, <<"I", "1">>, <<"0">>, <<"5">>, <<>>, <<"1">>),
     RawRow(<<"B">>, <<"X">>, <<"I", "1">>, <<"1", "0", "0">>, <<"0">>, <<>>, <<>>),
     RawRow(<<"A">>, <<"X">>, <<"I", "1">>, <<"-", "1", "0", "0">>, <<>>, <<"x">>, <<>>),
     RawRow(<<"b">>, <<"Z">>, <<"i", "3">>, <<"2", ".", "5", "k">>, <<"1", ",", "0", "0", "0">>, <<>>, <<>>),
     RawRow(<<>>, <<"X">>, <<"I", "1">>, <<"1", "0", "0">>, <<"2", "0">>, <<>>, <<>>),
     RawRow(<<"1">>, <<"2">>, <<"3">>, <<"5">>, <<"1">>, <<>>, <<>>),
     RawRow(<<"a">>, <<"X">>, <<"I", "2">>, <<"x">>, <<>>, <<>>, <<>>) >>

\* the rows of RawOrder picked by the indices ix
Picked(ix) == [i \in DOMAIN ix |-> RawOrder[ix[i]]]

Monotone(ix) ==
  \/ \A i, j \in DOMAIN ix : i < j => ix[i] < ix[j]
  \/ \A i, j \in DOMAIN ix : i < j => ix[i] > ix[j]

\* the tables a file can hold: up to MaxRows rows of RawOrder, in that order
\* or in the opposite order
RawTables ==
  {Picked(ix) : ix \in {x \in UNION {[1..k -> DOMAIN RawOrder] : k \in 0..MaxRows} : Monotone(x)}}

\* the files the dashboards are driven with: an empty one, one with three
\* categories' rows, one whose only row lacks its category, one whose
\* dimensions are written with digits, one with a row that lacks its
\* category between two rows of one sub-category, one whose only row has a
\* Revenue and no Margin, one whose categories differ in case alone, one
\* whose only row has no number in any measure, and one of four rows with a
\* Margin in three of them
SampleFiles ==
  {Picked(ix) : ix \in {<<>>, <<1, 3, 4>>, <<7>>, <<8, 6>>, <<1, 7, 2>>, <<5>>, <<4, 6>>, <<9>>,
                        <<1, 3, 4, 5>>}}

Range(f) == {f[i] : i \in DOMAIN f}

\* !!v
Truthy(v) ==
  CASE v.t = "str" -> v.s # <<>>
    [] v.t = "num" -> v.n # 0
    [] v.t = "obj" -> TRUE
    [] OTHER -> FALSE

\* mutant: the category is not asked for
Retained_NoCategory(r) == Truthy(r.sub_category) /\ Truthy(r.item)

\* r.category && r.sub_category && r.item
Retained(r) == Truthy(r.category) /\ Truthy(r.sub_category) /\ Truthy(r.item)

(***************************************************************************)
(* src/src/App.jsx 531-773 (and src/unnamed/part_002 67-406).              *)
(***************************************************************************)
\* one row of normalizeRows: the dimensions are copied, a measure is kept
\* when toNumberStrict of its cell is not NaN
normalizeRow(r) ==
  LET UnlessNaN(n) == IF n.t = "nan" THEN Undefined ELSE n
  IN  [category |-> r.category, sub_category |-> r.sub_category, item |-> r.item,
       sku_code |-> r.sku_code,
       m |-> [x \in Measures |-> UnlessNaN(toNumberStrict(r.m[x]))]]

normalizeRows(raw) == SelectSeq([i \in DOMAIN raw |-> normalizeRow(raw[i])], Retained)

\* the measures with a finite value in at least one row
Present(nrm) == {x \in Measures : \E i \in DOMAIN nrm : nrm[i].m[x].t = "num"}

\* mutant: Margin % is pushed whatever is present
CatalogOf_AlwaysPct(nrm) ==
  LET present == Present(nrm)
      keep(x) == x \in present
  IN  SelectSeq(BaseMeasures, keep) \o <<MarginPct>>

\* metrics of parseAndSet
CatalogOf(nrm) ==
  LET present == Present(nrm)
      keep(x) == x \in present
  IN  SelectSeq(BaseMeasures, keep)
        \o (IF "Revenue" \in present /\ "Margin" \in present THEN <<MarginPct>> ELSE <<>>)

\* the selected metric after parseAndSet
SelectedAfterLoad(metrics, sel) ==
  IF MarginPct \in Range(metrics) THEN MarginPct
  ELSE IF sel \notin Range(metrics)
    THEN (IF metrics = <<>> THEN "" ELSE metrics[1])
    ELSE sel

\* mutant: every level is grouped by category
levelKey_Category(lvl) == "category"

levelKey(lvl) ==
  IF lvl \in 0..2 THEN <<"category", "sub_category", "item">>[lvl + 1] ELSE "category"

\* Number(v)
ToNumber(v) ==
  CASE v.t = "num" -> v
    [] v.t = "str" -> JSNumber(v.s)
    [] v.t = "null" -> Zero
    [] OTHER -> NaN

\* collation rank of a character, case folded
CollationOrder == <<"1", "2", "3", "a", "b", "i", "s", "x", "y", "z">>

FoldChar(c) ==
  CASE c = "A" -> "a" [] c = "B" -> "b" [] c = "I" -> "i" [] c = "S" -> "s"
    [] c = "X" -> "x" [] c = "Y" -> "y" [] c = "Z" -> "z" [] OTHER -> c

\* variant: the characters ranked by their code units, upper case before
\* lower case
CharRank_CodeUnit(c) ==
  LET CodeUnits == <<"1", "2", "3", "A", "B", "I", "S", "X", "Y", "Z",
                     "a", "b", "i", "s", "x", "y", "z">>
  IN  CHOOSE i \in DOMAIN CodeUnits : CodeUnits[i] = c

CharRank(c) == CHOOSE i \in DOMAIN CollationOrder : CollationOrder[i] = FoldChar(c)

\* primary comparison: letters compared without case
RECURSIVE ComparePrimary(_, _)
ComparePrimary(a, b) ==
  IF a = <<>> THEN (IF b = <<>> THEN 0 ELSE -1)
  ELSE IF b = <<>> THEN 1
  ELSE IF CharRank(Head(a)) < CharRank(Head(b)) THEN -1
  ELSE IF CharRank(Head(a)) > CharRank(Head(b)) THEN 1
  ELSE ComparePrimary(Tail(a), Tail(b))

\* tertiary comparison of primary-equal strings: lower case first
RECURSIVE CompareCase(_, _)
CompareCase(a, b) ==
  IF a = <<>> THEN 0
  ELSE IF Head(a) = Head(b) THEN CompareCase(Tail(a), Tail(b))
  ELSE IF Head(a) = FoldChar(Head(a)) THEN -1 ELSE 1

\* a.localeCompare(b), default collation
localeCompare(a, b) ==
  LET p == ComparePrimary(a, b) IN IF p # 0 THEN p ELSE CompareCase(a, b)

\* a.localeCompare(b, undefined, { sensitivity: 'base' })
localeCompareBase(a, b) == ComparePrimary(a, b)

\* Array.prototype.sort on the names (strings), compared by localeCompare with
\* { sensitivity: 'base' } when base, by the default localeCompare otherwise:
\* stable insertion; a single element is never compared
RECURSIVE InsertSorted(_, _, _)
InsertSorted(base, x, sorted) ==
  IF sorted = <<>> THEN <<x>>
  ELSE IF (IF base THEN localeCompareBase(x.name.s, Head(sorted).name.s)
           ELSE localeCompare(x.name.s, Head(sorted).name.s)) < 0
    THEN <<x>> \o sorted
  ELSE <<Head(sorted)>> \o InsertSorted(base, x, Tail(sorted))

RECURSIVE SortByName(_, _)
SortByName(base, bs) ==
  IF bs = <<>> THEN <<>>
  ELSE InsertSorted(base, bs[Len(bs)], SortByName(base, SubSeq(bs, 1, Len(bs) - 1)))

\* rows whose field key equals name, in order
RowsWith(rs, key, name) ==
  LET has(r) == r[key] = name IN SelectSeq(rs, has)

\* mutant: every row adds a key, seen before or not
BucketKeys_EveryRow(rs, key, seen) == seen \o [i \in DOMAIN rs |-> rs[i][key]]

\* the keys of the bucket Map, in insertion order; falsy keys are skipped
RECURSIVE BucketKeys(_, _, _)
BucketKeys(rs, key, seen) ==
  IF rs = <<>> THEN seen
  ELSE LET k == Head(rs)[key]
       IN  IF ~Truthy(k) \/ k \in Range(seen)
             THEN BucketKeys(Tail(rs), key, seen)
             ELSE BucketKeys(Tail(rs), key, Append(seen, k))

\* mutant: the reduce starts from the first row instead of from 0
RECURSIVE SumMeasure_NoSeed(_, _)
SumMeasure_NoSeed(rs, m) ==
  IF Len(rs) <= 1 THEN Zero
  ELSE NumAdd(SumMeasure_NoSeed(SubSeq(rs, 1, Len(rs) - 1), m),
              OrZero(ToNumber(rs[Len(rs)].m[m])))

\* rs.reduce((a, r) => a + (Number(r[m]) || 0), 0)
RECURSIVE SumMeasure(_, _)
SumMeasure(rs, m) ==
  IF rs = <<>> THEN Zero
  ELSE NumAdd(SumMeasure(SubSeq(rs, 1, Len(rs) - 1), m), OrZero(ToNumber(rs[Len(rs)].m[m])))

\* the sum of the rows' own Margin / Revenue ratios, in percent
RECURSIVE SumRatios(_)
SumRatios(rs) ==
  IF rs = <<>> THEN Zero
  ELSE LET r == Head(rs)
           rev == OrZero(ToNumber(r.m["Revenue"]))
           mar == OrZero(ToNumber(r.m["Margin"]))
       IN  NumAdd(IF rev.n = 0 THEN Zero ELSE NumScale(NumDiv(mar, rev), 2),
                  SumRatios(Tail(rs)))

DerivedMarginPct_RowMean(sums, rs) ==
  IF sums["Revenue"].n # 0
    THEN NumDiv(SumRatios(rs), Int2Num(Len(rs)))
    ELSE Undefined

\* agg["Margin %"] of grouped: set only when the summed Revenue is not 0
DerivedMarginPct(sums, rs) ==
  IF sums["Revenue"].n # 0
    THEN NumScale(NumDiv(sums["Margin"], sums["Revenue"]), 2)
    ELSE Undefined

\* the aggregate of one bucket: the sums and the derived Margin %
Aggregate(name, rs) ==
  LET WithMarginPct(sums) ==
        [name |-> name,
         v |-> [x \in Measures \cup {MarginPct} |->
                  IF x = MarginPct THEN DerivedMarginPct(sums, rs) ELSE sums[x]]]
  IN  WithMarginPct([m \in Measures |-> SumMeasure(rs, m)])

\* mutant: the sub-category of the path is not filtered on
PathFiltered_CategoryOnly(rs, path) ==
  IF Len(path) >= 1 /\ Truthy(path[1]) THEN RowsWith(rs, "category", path[1]) ELSE rs

\* the rows left by the drill-path filter of grouped
PathFiltered(rs, path) ==
  LET ByCategory(f) ==
        IF Len(path) >= 1 /\ Truthy(path[1]) THEN RowsWith(f, "category", path[1]) ELSE f
      BySubCategory(f) ==
        IF Len(path) >= 2 /\ Truthy(path[2]) THEN RowsWith(f, "sub_category", path[2]) ELSE f
  IN  BySubCategory(ByCategory(rs))

grouped(rs, path) ==
  LET \* the bucket Map of the filtered rows turned into aggregates
      Buckets(filtered, key) ==
        LET Aggregates(names) ==
              [i \in DOMAIN names |->
                 Aggregate(names[i], RowsWith(filtered, key, names[i]))]
        IN  Aggregates(BucketKeys(filtered, key, <<>>))
  IN  IF rs = <<>> THEN <<>>
      ELSE SortByName(FALSE, Buckets(PathFiltered(rs, path), levelKey(Len(path))))

\* d[metric] of an aggregate
Field(d, metric) ==
  IF metric \in DOMAIN d.v THEN d.v[metric] ELSE Undefined

\* Math.round(x) = floor(x + 1/2)
MathRound(x) == NumFloor(NumAdd(x, Half))

NumAbs(x) == [x EXCEPT !.n = Abs(x.n)]

\* x.toFixed(1): sign and tenths of the magnitude
toFixed1(x) == [neg |-> x.n < 0, tenths |-> MathRound(NumScale(NumAbs(x), 1))]

asPct(v) == [fmt |-> "pct", fixed |-> toFixed1(v)]

\* |x| >= 10^k
AtLeastPow10(x, k) == NumFloor(NumAbs(x)) >= Pow10(k)

compact(x) ==
  LET \* the power of ten x is divided by
      UnitExp ==
        CASE AtLeastPow10(x, 9) -> 9
          [] AtLeastPow10(x, 6) -> 6
          [] AtLeastPow10(x, 3) -> 3
          [] OTHER -> 0
      UnitName(k) == CASE k = 9 -> "B" [] k = 6 -> "M" [] OTHER -> "K"
      InUnit(k) ==
        IF k = 0 THEN [fmt |-> "int", int |-> MathRound(x)]
        ELSE [fmt |-> UnitName(k), fixed |-> toFixed1(NumScale(x, -k))]
  IN  InUnit(UnitExp)

purpleShade(t) ==
  LET clamp(v) == IF NumSign(v) < 0 THEN Zero ELSE IF NumLess(One, v) THEN One ELSE v
      lerp(a, b, p) == MathRound(NumAdd(Int2Num(a), NumMul(Int2Num(b - a), clamp(p))))
      from == [r |-> 237, g |-> 233, b |-> 254]
      to == [r |-> 91, g |-> 33, b |-> 182]
      Shade(p) == [c \in {"r", "g", "b"} |-> lerp(from[c], to[c], p)]
  IN  Shade(clamp(t))

marginColor(v) ==
  IF NumSign(v) > 0 THEN "#16a34a" ELSE IF NumSign(v) < 0 THEN "#dc2626" ELSE "#9ca3af"

\* variant: the first value taken for the least
NumMin_First(vs) == vs[1]

\* Math.min(...vs)
RECURSIVE NumMin(_)
NumMin(vs) ==
  LET Lesser(v, m) == IF NumLess(v, m) THEN v ELSE m
  IN  IF Len(vs) = 1 THEN vs[1] ELSE Lesser(vs[1], NumMin(Tail(vs)))

\* Math.max(...vs)
RECURSIVE NumMax(_)
NumMax(vs) ==
  LET Greater(v, m) == IF NumLess(m, v) THEN v ELSE m
  IN  IF Len(vs) = 1 THEN vs[1] ELSE Greater(vs[1], NumMax(Tail(vs)))

\* max - min || 1
Span(diff) == IF diff.n = 0 THEN One ELSE diff

colorized(gr, metric) ==
  LET \* Number(d[metric]) || 0
      MetricValue(d) == OrZero(ToNumber(Field(d, metric)))
      MetricValues == [i \in DOMAIN gr |-> MetricValue(gr[i])]
      \* one aggregate with its __color and __label
      Encoded(d, v, min, span) ==
        [name |-> d.name, v |-> d.v,
         color |-> IF metric = MarginPct THEN [hex |-> marginColor(v)]
                   ELSE [rgb |-> purpleShade(NumDiv(NumSub(v, min), span))],
         label |-> IF metric = MarginPct THEN asPct(v) ELSE compact(v)]
      EncodedOver(min, span) ==
        [i \in DOMAIN gr |-> Encoded(gr[i], MetricValue(gr[i]), min, span)]
      Ranged(min, max) == EncodedOver(min, Span(NumSub(max, min)))
  IN  IF gr = <<>> \/ metric = "" THEN <<>>
      ELSE Ranged(NumMin(MetricValues), NumMax(MetricValues))

(***************************************************************************)
(* The loaders of the other components.  A load outcome is the working     *)
(* set, the catalog and the selected metric the handler sets, or a throw.  *)
(***************************************************************************)
Loaded(rs, metrics, sel) == [ok |-> TRUE, rows |-> rs, metrics |-> metrics, sel |-> sel]
Thrown == [ok |-> FALSE]

\* typeof v === 'number'
IsNumberType(v) == v.t \in {"num", "nan"}

\* the measures, in header order, whose value in the sample row is a number
numericCols(sample) ==
  LET keep(k) == IsNumberType(sample.m[k]) IN SelectSeq(BaseMeasures, keep)

\* transform: (v) => (typeof v === 'string' ? v.trim() : v), on every cell
transformRow(r) ==
  [category |-> Str(trim(r.category.s)), sub_category |-> Str(trim(r.sub_category.s)),
   item |-> Str(trim(r.item.s)), sku_code |-> Str(trim(r.sku_code.s)),
   m |-> [x \in Measures |-> Str(trim(r.m[x].s))]]

\* one row of the normalization in handleFileUpload (part_000 108-139)
uploadRow(r) ==
  [category |-> r.category, sub_category |-> r.sub_category, item |-> r.item,
   sku_code |-> Str(trim(r.sku_code.s)),
   m |-> [x \in Measures |-> toNumber(r.m[x])]]

\* the complete callback of handleFileUpload in part_000 and part_002 (upload
\* variant); preferPct is the extra first choice of part_001 168
uploadComplete(raw, sel, preferPct) ==
  LET Selected(metrics) ==
        IF preferPct /\ MarginPct \in Range(metrics) THEN MarginPct
        ELSE IF "Margin" \in Range(metrics) THEN "Margin"
        ELSE metrics[1]
      Load(normalized, metrics) == Loaded(normalized, metrics, Selected(metrics))
      Normalized(normalized) ==
        IF normalized = <<>> THEN Thrown
        ELSE Load(normalized, numericCols(normalized[1]) \o <<MarginPct>>)
  IN  IF raw = <<>> THEN Thrown
      ELSE Normalized(SelectSeq([i \in DOMAIN raw |-> uploadRow(transformRow(raw[i]))],
                                Retained))

\* parseFloat(s): the longest numeric prefix (no exponent in the cells)
parseFloat(s) ==
  LET FloatValue(neg, int, frac) ==
        IF int \o frac = <<>> THEN NaN
        ELSE MkNum((IF neg THEN -1 ELSE 1) * DigitsVal(int \o frac, 0), 1, -Len(frac))
      FloatFraction(neg, int, t) ==
        FloatValue(neg, int, IF HasPoint(t) THEN Take(Tail(t), DigitRun(Tail(t))) ELSE <<>>)
      FloatDigits(neg, t) == FloatFraction(neg, Take(t, DigitRun(t)), Drop(t, DigitRun(t)))
      FloatText(t) ==
        FloatDigits(HasMinus(t), IF t # <<>> /\ Head(t) \in {"-", "+"} THEN Tail(t) ELSE t)
  IN  FloatText(TrimLeft(s))

\* line.split(','): the pieces of a text between its commas
RECURSIVE SplitCommas(_, _)
SplitCommas(s, piece) ==
  IF s = <<>> THEN <<piece>>
  ELSE IF Head(s) = "," THEN <<piece>> \o SplitCommas(Tail(s), <<>>)
  ELSE SplitCommas(Tail(s), Append(piece, Head(s)))

\* the values of one line: every cell is cut at its commas, each piece is
\* trimmed (the quotes a cell with a comma is written in are removed)
csvValues(r) ==
  LET cut(c) == SplitCommas(c.s, <<>>)
      all == cut(r.category) \o cut(r.sub_category) \o cut(r.item) \o cut(r.sku_code)
               \o cut(r.m["Revenue"]) \o cut(r.m["Margin"]) \o cut(r.m["Cost"])
               \o cut(r.m["No of Transactions"])
  IN  [i \in 1..8 |-> trim(all[i])]

\* value && !isNaN(parseFloat(...)) ? parseFloat(...) : value
csvCell(value) ==
  LET NumberOr(n) == IF value # <<>> /\ n.t = "num" THEN n ELSE Str(value)
  IN  NumberOr(parseFloat(RemoveCommas(value)))

\* one row of normalizedData in handleFileUpload of src/src/App.jsx 60-87
csvRow(r) ==
  LET Row(vs) ==
        [category |-> Str(vs[1]), sub_category |-> Str(vs[2]), item |-> Str(vs[3]),
         sku_code |-> Str(vs[4]),
         m |-> [x \in Measures |->
                  csvCell(CASE x = "Revenue" -> vs[5] [] x = "Margin" -> vs[6]
                            [] x = "Cost" -> vs[7] [] OTHER -> vs[8])]]
  IN  Row(csvValues(r))

\* handleFileUpload of src/src/App.jsx 18-113 after the file's text is read
csvComplete(raw, sel) ==
  LET Columns(normalizedData) ==
        IF normalizedData = <<>> THEN <<>>
        ELSE numericCols(normalizedData[1])
      Load(normalizedData, numericColumns) ==
        Loaded(normalizedData, numericColumns,
               IF "Margin" \in Range(numericColumns) THEN "Margin"
               ELSE IF numericColumns # <<>> THEN numericColumns[1]
               ELSE sel)
      Normalized(normalizedData) == Load(normalizedData, Columns(normalizedData))
  IN  IF raw = <<>> THEN Thrown
      ELSE Normalized(SelectSeq([i \in DOMAIN raw |-> csvRow(raw[i])], Retained))

\* toNumber of src/unnamed/part_001 822-829
toNumberAuto(v) ==
  LET AutoValue(m, s) ==
        IF m.ok THEN NumScale(parseFloatGroup(m), MultExp(m.suf)) ELSE OrZero(JSNumber(s))
      AutoText(s) == AutoValue(NumericMatch(s, StrictSuffixes), s)
  IN  IF v.t \in {"null", "undef"} THEN Zero
      ELSE AutoText(RemoveCommas(trim(JSString(v))))

\* the coercion of parseAndSet in part_001 897-905: every non-blank string
\* field, the dimensions included, is replaced by toNumber of it
coerceAuto(v) ==
  LET Coerced(n) == IF v.t = "str" /\ trim(v.s) # <<>> /\ n.t # "nan" THEN n ELSE v
  IN  Coerced(toNumberAuto(v))

DimKeys == <<"category", "sub_category", "item", "sku_code">>

\* row[m] for a catalog entry m
Cell(r, m) == IF m \in Measures THEN r.m[m] ELSE IF m \in DOMAIN r THEN r[m] ELSE Undefined

autoRow(r) ==
  LET Row(cells) ==
        [category |-> cells["category"], sub_category |-> cells["sub_category"],
         item |-> cells["item"], sku_code |-> cells["sku_code"],
         m |-> [x \in Measures |-> cells[x]]]
  IN  Row([k \in Range(DimKeys) \cup Measures |-> coerceAuto(Cell(r, k))])

\* parseAndSet of part_001 894-914 with inferMetrics 870-892: every column
\* counts as numeric, a string because toNumber of it is never NaN
autoParse(raw, sel) ==
  LET Metrics(numRows) ==
        IF numRows = <<>> THEN <<>> ELSE BaseMeasures \o <<MarginPct>> \o DimKeys
      Load(numRows, metrics) ==
        Loaded(numRows, metrics,
               IF metrics # <<>> /\ sel \notin Range(metrics) THEN metrics[1] ELSE sel)
      Coerced(numRows) == Load(numRows, Metrics(numRows))
      Rows(kept) == [i \in DOMAIN kept |-> autoRow(kept[i])]
  IN  Coerced(Rows(SelectSeq(raw, Retained)))

\* the coercion of parseAndSet in part_002 1032-1040: a measure is replaced
\* when toNumberStrict of it is not NaN
detectRow(r) ==
  LET UnlessNaN(n, v) == IF n.t = "nan" THEN v ELSE n
  IN  [category |-> r.category, sub_category |-> r.sub_category, item |-> r.item,
       sku_code |-> r.sku_code,
       m |-> [x \in Measures |-> UnlessNaN(toNumberStrict(r.m[x]), r.m[x])]]

\* detectNumericFields of part_002 1015-1026
detectNumericFields(rs) ==
  LET \* Math.max(1, Math.floor(n * 0.8))
      Threshold(n) == IF (n * 8) \div 10 > 1 THEN (n * 8) \div 10 ELSE 1
      NumericCount(x) ==
        Cardinality({i \in DOMAIN rs : toNumberStrict(rs[i].m[x]).t # "nan"})
      Enough(count, threshold) == count > 0 /\ count >= threshold
      keep(x) == Enough(NumericCount(x), Threshold(Len(rs)))
  IN  SelectSeq(BaseMeasures, keep)

\* parseAndSet of part_002 1029-1059
detectParse(raw, sel) ==
  LET WithDerived(cols) ==
        cols
          \o (IF "Revenue" \in Range(cols) /\ "Margin" \in Range(cols)
                THEN <<MarginPct>> ELSE <<>>)
      Load(coerced, ordered) ==
        Loaded(coerced, ordered,
               IF sel \notin Range(ordered)
                 THEN (IF ordered = <<>> THEN "" ELSE ordered[1]) ELSE sel)
      Coerced(coerced) == Load(coerced, WithDerived(detectNumericFields(coerced)))
      Rows(kept) == [i \in DOMAIN kept |-> detectRow(kept[i])]
  IN  Coerced(Rows(SelectSeq(raw, Retained)))

\* parseAndSet of src/src/App.jsx 565-584 and part_002 103-123
strictParse(raw, sel) ==
  LET Load(nrm, metrics) == Loaded(nrm, metrics, SelectedAfterLoad(metrics, sel))
      Normalized(nrm) == Load(nrm, CatalogOf(nrm))
  IN  Normalized(normalizeRows(raw))

(***************************************************************************)
(* The charts of the upload components.                                    *)
(***************************************************************************)
\* filteredData (part_000 171-177)
filteredData(rs, path) ==
  LET f1 == IF Len(path) > 0 THEN RowsWith(rs, "category", path[1]) ELSE rs
      f2 == IF Len(path) > 1 THEN RowsWith(f1, "sub_category", path[2]) ELSE f1
  IN  IF Len(path) > 2 THEN RowsWith(f2, "item", path[3]) ELSE f2

\* isLeafLevel of the chart memo (part_000 180-193)
isLeafLevel(rs, path) == rs # <<>> /\ Len(path) \notin 0..2

\* the keys of the grouping object in insertion order (the later sort by name
\* makes the engine's own key order irrelevant)
RECURSIVE GroupNames(_, _, _)
GroupNames(rs, key, seen) ==
  IF rs = <<>> THEN seen
  ELSE LET k == Head(rs)[key]
       IN  GroupNames(Tail(rs), key, IF k \in Range(seen) THEN seen ELSE Append(seen, k))

\* sum of toNumber(row[x]) over the rows, starting from 0
RECURSIVE SumOver(_, _)
SumOver(rs, x) ==
  IF rs = <<>> THEN Zero
  ELSE NumAdd(SumOver(SubSeq(rs, 1, Len(rs) - 1), x), toNumber(Cell(rs[Len(rs)], x)))

\* x > 0 for a number or NaN
Positive(x) == x.t = "num" /\ x.n > 0

\* the fill colors given to chart records with plotted values (part_000 235-246)
Filled(recs, metric) ==
  LET Values == [i \in DOMAIN recs |-> recs[i].value]
      fill(d, min, span) ==
        [name |-> d.name, value |-> d.value, v |-> d.v,
         color |-> IF metric = MarginPct THEN [hex |-> marginColor(d.value)]
                   ELSE [rgb |-> purpleShade(NumDiv(NumSub(d.value, min), span))]]
      FilledOver(min, span) == [i \in DOMAIN recs |-> fill(recs[i], min, span)]
      FilledBetween(min, max) == FilledOver(min, Span(NumSub(max, min)))
  IN  IF recs = <<>> THEN <<>>
      ELSE FilledBetween(NumMin(Values), NumMax(Values))

\* marginPct of part_000 219
marginPctUpload(marginSum, revenueSum) ==
  IF Positive(revenueSum) THEN NumScale(NumDiv(marginSum, revenueSum), 2) ELSE Zero

\* the sums of a bucket's rows, one for each of the named columns
BucketSums(brs, names) ==
  [x \in names |-> SumOver(brs, x)]

\* chartData of part_000 180-249
chartData(rs, path, metrics, metric) ==
  LET \* metricsMap: the summed metrics and the derived Margin %
      MetricsMap(summed, sums) ==
        [x \in summed \cup {MarginPct} |->
           IF x = MarginPct THEN marginPctUpload(sums["Margin"], sums["Revenue"])
           ELSE sums[x]]
      \* metricsMap[selectedMetric] ?? 0
      ChartRecord(name, metricsMap) ==
        [name |-> name,
         value |-> IF metric \in DOMAIN metricsMap THEN metricsMap[metric] ELSE Zero,
         v |-> metricsMap]
      ChartRecords(fd, key, summed) ==
        LET rec(name) ==
              ChartRecord(name,
                          MetricsMap(summed, BucketSums(RowsWith(fd, key, name),
                                                        summed \cup {"Margin", "Revenue"})))
            Records(names) == [i \in DOMAIN names |-> rec(names[i])]
        IN  Records(GroupNames(fd, key, <<>>))
  IN  IF rs = <<>> \/ Len(path) \notin 0..2 THEN <<>>
      ELSE Filled(SortByName(TRUE,
                             ChartRecords(filteredData(rs, path), levelKey(Len(path)),
                                          Range(metrics) \ {MarginPct})),
                  metric)

\* chartData of part_002 589-649: only the selected metric is computed
chartDataSelected(rs, path, metric) ==
  LET SelectedRecord(name, sums) ==
        [name |-> name,
         value |-> IF metric = MarginPct
                     THEN marginPctUpload(sums["Margin"], sums["Revenue"])
                     ELSE sums[metric],
         v |-> <<>>]
      SelectedRecords(fd, key) ==
        LET rec(name) ==
              SelectedRecord(name,
                             BucketSums(RowsWith(fd, key, name),
                                        IF metric = MarginPct THEN {"Margin", "Revenue"}
                                        ELSE {metric}))
            Records(names) == [i \in DOMAIN names |-> rec(names[i])]
        IN  Records(GroupNames(fd, key, <<>>))
  IN  IF rs = <<>> \/ Len(path) \notin 0..2 THEN <<>>
      ELSE Filled(SortByName(TRUE,
                             SelectedRecords(filteredData(rs, path), levelKey(Len(path)))),
                  metric)

(***************************************************************************)
(* What is on screen.                                                      *)
(***************************************************************************)
StrictVariants == {"App", "P002_leaf"}
PapaUploadVariants == {"P000", "P001_opco", "P002_upload"}
FileVariants == {"P001_auto", "P002_detect"}

\* the names of the rows grouped is built from in part_001 979-1018 and
\* part_002 1115-1153; with two or more names that are not strings the sort's
\* localeCompare throws and nothing is rendered
groupedNames(rs, path) ==
  LET Sortable(names) ==
        IF Len(names) > 1 /\ \E i \in DOMAIN names : names[i].t # "str" THEN {}
        ELSE Range(names)
  IN  IF rs = <<>> THEN {}
      ELSE Sortable(BucketKeys(PathFiltered(rs, path), levelKey(Len(path)), <<>>))

\* the names of the bars of the chart
BarNames ==
  CASE variant \in StrictVariants ->
         {d.name : d \in Range(colorized(grouped(rows, drillPath), selectedMetric))}
    [] variant = "P002_detect" ->
         IF selectedMetric = "" THEN {} ELSE groupedNames(rows, drillPath)
    [] variant = "P001_auto" -> groupedNames(rows, drillPath)
    [] OTHER ->
         IF rows = <<>> \/ isLeafLevel(rows, drillPath) THEN {}
         ELSE Range(GroupNames(filteredData(rows, drillPath), levelKey(Len(drillPath)), <<>>))

\* the rows of the leaf table of the upload components (part_000 528)
leafRows == IF isLeafLevel(rows, drillPath) THEN filteredData(rows, drillPath) ELSE <<>>

(***************************************************************************)
(* Drill handlers.                                                         *)
(***************************************************************************)
\* mutant: the level guard of onBarClick is missing
onBarClickPath_Unguarded(path, name) == Append(path, name)

\* the path onBarClick sets (src/src/App.jsx 674-677): no descent from level 2
onBarClickPath(path, name) == IF Len(path) < 2 THEN Append(path, name) ELSE path

\* mutant: the name is put in front of the path
handleBarClickPath_Prepend(path, name) == <<name>> \o path

\* the path handleBarClick sets (part_000 252-254)
handleBarClickPath(path, name) == Append(path, name)

\* mutant: slice(1) instead of slice(0, -1)
sliceLast_First(path) == IF path = <<>> THEN <<>> ELSE Tail(path)

\* p.slice(0, -1)
sliceLast(path) == IF path = <<>> THEN <<>> ELSE SubSeq(path, 1, Len(path) - 1)

\* mutant: slice(0, index + 1)
sliceTo_Inclusive(path, index) == SubSeq(path, 1, Min2(index + 1, Len(path)))

\* drillPath.slice(0, index)
sliceTo(path, index) == SubSeq(path, 1, Min2(index, Len(path)))

\* the history of a handler run
Record(op, name, k) ==
  /\ lastOp' = Ran(op, name, k)
  /\ prevPath' = drillPath
  /\ lastLoad' = lastLoad

\* the history of a load: the table handed over, whether the parser reported
\* errors with it, and whether the handler ran to its end
RecordLoad(op, raw, parseErrors, ok) ==
  /\ lastOp' = Ran(op, Null, 0)
  /\ prevPath' = drillPath
  /\ lastLoad' = [raw |-> raw, errors |-> parseErrors, ok |-> ok]

\* variant: no effect on drillPath
SetDrillPath_KeepsLeaf(p) ==
  /\ drillPath' = p
  /\ selectedLeaf' = selectedLeaf

\* setDrillPath(p); in part_002 67-406 the effect on drillPath then closes the
\* SKU table
SetDrillPath(p) ==
  /\ drillPath' = p
  /\ selectedLeaf' = IF variant = "P002_leaf" THEN Null ELSE selectedLeaf

onBarClick ==
  /\ variant \in AutoloadVariants
  /\ \E name \in BarNames :
       /\ Truthy(name)
       /\ IF Len(drillPath) < 2 \/ variant # "P002_leaf"
            THEN SetDrillPath(onBarClickPath(drillPath, name))
            ELSE drillPath' = drillPath /\ selectedLeaf' = name
       /\ Record("onBarClick", name, 0)
  /\ UNCHANGED <<variant, rows, availableMetrics, selectedMetric, isLoading, error,
                 pending, pureVars>>

\* variant: Root also clears the selected metric
drillHome_ClearsMetric ==
  /\ variant \in AutoloadVariants
  /\ Len(drillPath) > 0
  /\ SetDrillPath(<<>>)
  /\ selectedMetric' = ""
  /\ Record("drillHome", Null, 0)
  /\ UNCHANGED <<variant, rows, availableMetrics, isLoading, error, pending, pureVars>>

drillHome ==
  /\ variant \in AutoloadVariants
  /\ Len(drillPath) > 0
  /\ SetDrillPath(<<>>)
  /\ Record("drillHome", Null, 0)
  /\ UNCHANGED <<variant, rows, availableMetrics, selectedMetric, isLoading, error,
                 pending, pureVars>>

drillBack ==
  /\ variant \in AutoloadVariants
  /\ Len(drillPath) > 0
  /\ SetDrillPath(sliceLast(drillPath))
  /\ Record("drillBack", Null, 0)
  /\ UNCHANGED <<variant, rows, availableMetrics, selectedMetric, isLoading, error,
                 pending, pureVars>>

closeLeaf ==
  /\ variant = "P002_leaf"
  /\ selectedLeaf # Null
  /\ selectedLeaf' = Null
  /\ Record("closeLeaf", Null, 0)
  /\ UNCHANGED <<variant, rows, drillPath, availableMetrics, selectedMetric, isLoading,
                 error, pending, pureVars>>

handleBarClick ==
  /\ variant \in UploadVariants
  /\ \E name \in BarNames :
       /\ Truthy(name)
       /\ SetDrillPath(handleBarClickPath(drillPath, name))
       /\ Record("handleBarClick", name, 0)
  /\ UNCHANGED <<variant, rows, availableMetrics, selectedMetric, isLoading, error,
                 pending, pureVars>>

\* a click on the chart background; the chart is on screen below leaf level
handleChartClick ==
  /\ variant \in UploadVariants
  /\ rows # <<>> /\ ~isLeafLevel(rows, drillPath)
  /\ IF Len(drillPath) > 0 THEN SetDrillPath(sliceLast(drillPath))
     ELSE UNCHANGED <<drillPath, selectedLeaf>>
  /\ Record("handleChartClick", Null, 0)
  /\ UNCHANGED <<variant, rows, availableMetrics, selectedMetric, isLoading, error,
                 pending, pureVars>>

goBack ==
  /\ variant \in UploadVariants
  /\ rows # <<>> /\ Len(drillPath) > 0
  /\ SetDrillPath(sliceLast(drillPath))
  /\ Record("goBack", Null, 0)
  /\ UNCHANGED <<variant, rows, availableMetrics, selectedMetric, isLoading, error,
                 pending, pureVars>>

goHome ==
  /\ variant \in UploadVariants
  /\ rows # <<>>
  /\ SetDrillPath(<<>>)
  /\ Record("goHome", Null, 0)
  /\ UNCHANGED <<variant, rows, availableMetrics, selectedMetric, isLoading, error,
                 pending, pureVars>>

\* a click on breadcrumb index of ['All Categories', ...drillPath]
breadcrumbClick ==
  /\ variant \in UploadVariants
  /\ rows # <<>>
  /\ \E index \in 0..Len(drillPath) :
       /\ SetDrillPath(sliceTo(drillPath, index))
       /\ Record("breadcrumbClick", Null, index)
  /\ UNCHANGED <<variant, rows, availableMetrics, selectedMetric, isLoading, error,
                 pending, pureVars>>

\* "Load different file"
loadDifferentFile ==
  /\ variant \in UploadVariants
  /\ rows # <<>>
  /\ rows' = <<>>
  /\ SetDrillPath(<<>>)
  /\ error' = ""
  /\ Record("loadDifferentFile", Null, 0)
  /\ UNCHANGED <<variant, availableMetrics, selectedMetric, isLoading, pending, pureVars>>

\* the metric <select>
selectMetric ==
  /\ variant \in AutoloadVariants \/ rows # <<>>
  /\ \E m \in Range(availableMetrics) :
       /\ m # selectedMetric
       /\ selectedMetric' = m
  /\ Record("selectMetric", Null, 0)
  /\ UNCHANGED <<variant, rows, drillPath, availableMetrics, selectedLeaf, isLoading,
                 error, pending, pureVars>>

(***************************************************************************)
(* Loading.                                                                *)
(***************************************************************************)
\* the outcome of parsing table raw in component v with sel selected
ParseAs(v, raw, sel) ==
  CASE v \in StrictVariants -> strictParse(raw, sel)
    [] v = "P001_auto" -> autoParse(raw, sel)
    [] v = "P002_detect" -> detectParse(raw, sel)
    [] v = "App_csv" -> csvComplete(raw, sel)
    [] OTHER -> uploadComplete(raw, sel, v = "P001_opco")

Parse(raw) == ParseAs(variant, raw, selectedMetric)

\* setRows / setData, setAvailableMetrics, setSelectedMetric of a load
SetLoaded(out) ==
  /\ rows' = out.rows
  /\ availableMetrics' = out.metrics
  /\ selectedMetric' = out.sel

\* the complete callback of the autoload effect (src/src/App.jsx 600-605)
autoloadComplete ==
  /\ pending.autoload
  /\ \E raw \in SampleFiles, parseErrors \in BOOLEAN :
       /\ SetLoaded(Parse(raw))
       /\ error' = IF parseErrors THEN "CSV parse" ELSE error
       /\ RecordLoad("autoloadComplete", raw, parseErrors, TRUE)
  /\ isLoading' = FALSE
  /\ pending' = [pending EXCEPT !.autoload = FALSE]
  /\ UNCHANGED <<variant, drillPath, selectedLeaf, pureVars>>

\* variant: the catch block sets the error and leaves the loading flag
autoloadFail_KeepsLoading ==
  /\ pending.autoload
  /\ isLoading' = isLoading
  /\ error' = "Failed to load"
  /\ pending' = [pending EXCEPT !.autoload = FALSE]
  /\ Record("autoloadFail", Null, 0)
  /\ UNCHANGED <<variant, rows, drillPath, availableMetrics, selectedMetric,
                 selectedLeaf, pureVars>>

\* the fetch fails or answers with an error status (src/src/App.jsx 612-617),
\* or the parser calls its error callback (606-610)
autoloadFail ==
  /\ pending.autoload
  /\ isLoading' = FALSE
  /\ error' = "Failed to load"
  /\ pending' = [pending EXCEPT !.autoload = FALSE]
  /\ Record("autoloadFail", Null, 0)
  /\ UNCHANGED <<variant, rows, drillPath, availableMetrics, selectedMetric,
                 selectedLeaf, pureVars>>

\* handleFile (part_001 957-973, part_002 1098-1108) up to Papa.parse
handleFile ==
  /\ variant \in FileVariants
  /\ pending.uploads < MaxUploads
  /\ isLoading' = TRUE
  /\ pending' = [pending EXCEPT !.uploads = @ + 1]
  /\ Record("handleFile", Null, 0)
  /\ UNCHANGED <<variant, rows, drillPath, availableMetrics, selectedMetric,
                 selectedLeaf, error, pureVars>>

\* its complete callback, or its error callback when the file cannot be read
handleFileDone ==
  /\ variant \in FileVariants
  /\ pending.uploads > 0
  /\ \/ /\ \E raw \in SampleFiles :
             /\ SetLoaded(Parse(raw))
             /\ RecordLoad("handleFileDone", raw, FALSE, TRUE)
        /\ error' = error
     \/ /\ error' = "CSV parse failed"
        /\ Record("handleFileError", Null, 0)
        /\ UNCHANGED <<rows, availableMetrics, selectedMetric>>
  /\ isLoading' = FALSE
  /\ pending' = [pending EXCEPT !.uploads = @ - 1]
  /\ UNCHANGED <<variant, drillPath, selectedLeaf, pureVars>>

\* handleFileUpload of the upload components up to the first asynchronous
\* step; the file input is on screen while there is no data.  In
\* src/src/App.jsx 18-29 a file not named *.csv is refused; in part_000
\* 87-168 the finally block has run when the handler returns
handleFileUpload ==
  /\ variant \in UploadVariants
  /\ rows = <<>>
  /\ pending.uploads < MaxUploads
  /\ \/ /\ variant = "App_csv"
        /\ \/ /\ error' = "Please upload a CSV file"
              /\ UNCHANGED <<isLoading, pending>>
           \/ /\ isLoading' = TRUE
              /\ error' = ""
              /\ pending' = [pending EXCEPT !.uploads = @ + 1]
     \/ /\ variant \in PapaUploadVariants
        /\ isLoading' = FALSE
        /\ error' = ""
        /\ pending' = [pending EXCEPT !.uploads = @ + 1]
  /\ Record("handleFileUpload", Null, 0)
  /\ UNCHANGED <<variant, rows, drillPath, availableMetrics, selectedMetric,
                 selectedLeaf, pureVars>>

\* the rest of handleFileUpload in src/src/App.jsx 30-113
csvLoaded ==
  /\ variant = "App_csv"
  /\ pending.uploads > 0
  /\ \E raw \in SampleFiles : \E out \in {Parse(raw)} :
       /\ IF out.ok
            THEN SetLoaded(out) /\ SetDrillPath(<<>>) /\ error' = error
            ELSE /\ error' = "Error loading CSV"
                 /\ UNCHANGED <<rows, availableMetrics, selectedMetric, drillPath,
                                selectedLeaf>>
       /\ RecordLoad("csvLoaded", raw, FALSE, out.ok)
  /\ isLoading' = FALSE
  /\ pending' = [pending EXCEPT !.uploads = @ - 1]
  /\ UNCHANGED <<variant, pureVars>>

\* the complete callback of handleFileUpload (part_000 101-160); a throw in
\* it is caught by nobody and leaves the state set so far
uploadLoaded ==
  /\ variant \in PapaUploadVariants
  /\ pending.uploads > 0
  /\ \E raw \in SampleFiles, parseErrors \in BOOLEAN : \E out \in {Parse(raw)} :
       /\ error' = IF parseErrors THEN "Parse warning" ELSE error
       /\ IF out.ok
            THEN SetLoaded(out) /\ SetDrillPath(<<>>)
            ELSE UNCHANGED <<rows, availableMetrics, selectedMetric, drillPath,
                             selectedLeaf>>
       /\ RecordLoad("uploadLoaded", raw, parseErrors, out.ok)
  /\ pending' = [pending EXCEPT !.uploads = @ - 1]
  /\ UNCHANGED <<variant, isLoading, pureVars>>

(***************************************************************************)
(* The dashboard specification.                                            *)
(***************************************************************************)
Init ==
  /\ \E v \in Variants : Constructed(v)
  /\ cIn = Null
  /\ cParts = NoParts
  /\ cStrict = Pending
  /\ cLoose = Pending
  /\ chart = Pending
  /\ hdr = CanonicalHeader
  /\ hdrOut = Pending

Next ==
  \/ autoloadComplete
  \/ autoloadFail
  \/ handleFile
  \/ handleFileDone
  \/ handleFileUpload
  \/ csvLoaded
  \/ uploadLoaded
  \/ onBarClick
  \/ drillHome
  \/ drillBack
  \/ closeLeaf
  \/ handleBarClick
  \/ handleChartClick
  \/ goBack
  \/ goHome
  \/ breadcrumbClick
  \/ loadDifferentFile
  \/ selectMetric

Spec == Init /\ [][Next]_vars

(***************************************************************************)
(* The component of src/src/App.jsx 531-773 while it stays mounted: the    *)
(* fetch started by the mount effect settles and the parser calls one of   *)
(* its callbacks, so the automatic load ends in autoloadComplete or in     *)
(* autoloadFail.                                                           *)
(***************************************************************************)
InitMounted == Init /\ variant = "App"

NextMounted ==
  \/ autoloadComplete
  \/ autoloadFail
  \/ onBarClick
  \/ drillHome
  \/ drillBack
  \/ selectMetric

SpecMounted ==
  InitMounted /\ [][NextMounted]_vars /\ WF_vars(autoloadComplete \/ autoloadFail)

(***************************************************************************)
(* The chart memos applied to bounded inputs: a component that has loaded  *)
(* one table of RawTables and has been drilled along its rows.             *)
(***************************************************************************)
AggVariants == {"App", "P000", "P002_upload"}

\* the drill paths of depth 0..2 along the rows rs
DrillPaths(rs) ==
  {<<>>} \cup {<<rs[i].category>> : i \in DOMAIN rs}
         \cup {<<rs[i].category, rs[i].sub_category>> : i \in DOMAIN rs}

InitAgg ==
  /\ \E v \in AggVariants, raw \in RawTables :
       \E out \in {ParseAs(v, raw, InitialSelected(v))} :
         /\ out.ok
         /\ variant = v
         /\ rows = out.rows
         /\ availableMetrics = out.metrics
         /\ selectedMetric \in Range(out.metrics) \cup {out.sel}
         /\ drillPath \in DrillPaths(out.rows)
         /\ lastLoad = [raw |-> raw, errors |-> FALSE, ok |-> TRUE]
  /\ selectedLeaf = Null
  /\ isLoading = FALSE
  /\ error = ""
  /\ pending = [autoload |-> FALSE, uploads |-> 0]
  /\ lastOp = Ran("init", Null, 0)
  /\ prevPath = <<>>
  /\ cIn = Null
  /\ cParts = NoParts
  /\ cStrict = Pending
  /\ cLoose = Pending
  /\ chart = Pending
  /\ hdr = CanonicalHeader
  /\ hdrOut = Pending

\* the grouped and colorized memos of src/src/App.jsx 626-672
renderGrouped ==
  /\ variant = "App"
  /\ chart = Pending
  /\ \E gr \in {grouped(rows, drillPath)} :
       chart' = [grouped |-> gr, colorized |-> colorized(gr, selectedMetric)]
  /\ UNCHANGED <<dashVars, numVars, hdrVars>>

\* the chart memo of part_000 180-249
renderChartData ==
  /\ variant = "P000"
  /\ chart = Pending
  /\ chart' = [chartData |-> chartData(rows, drillPath, availableMetrics, selectedMetric)]
  /\ UNCHANGED <<dashVars, numVars, hdrVars>>

\* the chart memo of part_002 589-649
renderChartDataSelected ==
  /\ variant = "P002_upload"
  /\ chart = Pending
  /\ chart' = [chartData |-> chartDataSelected(rows, drillPath, selectedMetric)]
  /\ UNCHANGED <<dashVars, numVars, hdrVars>>

NextAgg == renderGrouped \/ renderChartData \/ renderChartDataSelected

SpecAgg == InitAgg /\ [][NextAgg]_vars

(***************************************************************************)
(* The header matching of the normalizers applied to bounded inputs: a     *)
(* file whose sub-category column is headed hdr, its other columns headed  *)
(* canonically.                                                            *)
(***************************************************************************)
\* s.replace(/\s+|-/g, "_")
RECURSIVE UnderscoreRuns(_)
UnderscoreRuns(s) ==
  IF s = <<>> THEN <<>>
  ELSE IF IsSpace(Head(s)) THEN <<"_">> \o UnderscoreRuns(TrimLeft(s))
  ELSE IF Head(s) = "-" THEN <<"_">> \o UnderscoreRuns(Tail(s))
  ELSE <<Head(s)>> \o UnderscoreRuns(Tail(s))

\* normKey of src/src/App.jsx 489
normKey(k) == UnderscoreRuns(toLowerCase(k))

\* s.replace(/\s+|_/g, '')
RECURSIVE RemoveBlanks(_)
RemoveBlanks(s) ==
  IF s = <<>> THEN <<>>
  ELSE IF IsSpace(Head(s)) \/ Head(s) = "_" THEN RemoveBlanks(Tail(s))
  ELSE <<Head(s)>> \o RemoveBlanks(Tail(s))

\* norm of src/unnamed/part_000 105
norm(x) == RemoveBlanks(toLowerCase(x))

\* normalizeRows of src/src/App.jsx 540-563 on a file whose sub-category
\* column is headed h: out.sub_category is set when normKey(h) is one of the
\* three keys of line 547
normalizeRowsHeaded(h, raw) ==
  LET Mapped == normKey(h) \in {CanonicalHeader,
                                <<"s", "u", "b", "c", "a", "t", "e", "g", "o", "r", "y">>,
                                CanonicalHeader \o <<"_", "1">>}
      Row(r) == [normalizeRow(r) EXCEPT !.sub_category = IF Mapped THEN @ ELSE Undefined]
  IN  Loaded(SelectSeq([i \in DOMAIN raw |-> Row(raw[i])], Retained), <<>>, "")

\* the normalization of handleFileUpload (part_000 103-143) on such a file:
\* out.sub_category is set when norm(h) is 'subcategory' (line 114)
uploadNormalizedHeaded(h, raw) ==
  LET Mapped == norm(h) = <<"s", "u", "b", "c", "a", "t", "e", "g", "o", "r", "y">>
      Row(r) == [uploadRow(transformRow(r)) EXCEPT
                   !.sub_category = IF Mapped THEN @ ELSE Undefined]
      Normalized(normalized) ==
        IF normalized = <<>> THEN Thrown ELSE Loaded(normalized, <<>>, "")
  IN  IF raw = <<>> THEN Thrown
      ELSE Normalized(SelectSeq([i \in DOMAIN raw |-> Row(raw[i])], Retained))

UpperChar(c) ==
  CASE c = "s" -> "S" [] c = "u" -> "U" [] c = "b" -> "B" [] c = "c" -> "C"
    [] c = "a" -> "A" [] c = "t" -> "T" [] c = "e" -> "E" [] c = "g" -> "G"
    [] c = "o" -> "O" [] c = "r" -> "R" [] c = "y" -> "Y" [] OTHER -> c

\* the word in every letter case
RECURSIVE Cased(_)
Cased(word) ==
  IF word = <<>> THEN {<<>>}
  ELSE {<<c>> \o rest : c \in {Head(word), UpperChar(Head(word))},
                        rest \in Cased(Tail(word))}

\* sub and category in every letter case, written together or with a
\* hyphen, an underscore, a blank or a full stop between them
SubCategoryHeaders ==
  {sub \o sep \o cat : sub \in Cased(<<"s", "u", "b">>),
                       sep \in {<<>>, <<"-">>, <<"_">>, <<" ">>, <<".">>},
                       cat \in Cased(<<"c", "a", "t", "e", "g", "o", "r", "y">>)}

\* a file of three complete rows, and one whose second row lacks its category
HeadedTables == {Picked(<<1, 3, 4>>), Picked(<<1, 7, 2>>)}

HeaderVariants == {"App", "P000"}

InitHdr ==
  /\ \E v \in HeaderVariants : Constructed(v)
  /\ hdr \in SubCategoryHeaders
  /\ hdrOut = Pending
  /\ cIn = Null
  /\ cParts = NoParts
  /\ cStrict = Pending
  /\ cLoose = Pending
  /\ chart = Pending

\* raw.map(...).filter(...) of normalizeRows (src/src/App.jsx 540-563)
normalizeHeaded ==
  /\ variant = "App"
  /\ hdrOut = Pending
  /\ \E raw \in HeadedTables :
       hdrOut' = [raw |-> raw, out |-> normalizeRowsHeaded(hdr, raw)]
  /\ UNCHANGED <<dashVars, numVars, chart, hdr>>

\* rows.map(...).filter(...) and the throws of part_000 103-143
uploadHeaded ==
  /\ variant = "P000"
  /\ hdrOut = Pending
  /\ \E raw \in HeadedTables :
       hdrOut' = [raw |-> raw, out |-> uploadNormalizedHeaded(hdr, raw)]
  /\ UNCHANGED <<dashVars, numVars, chart, hdr>>

NextHdr == normalizeHeaded \/ uploadHeaded

SpecHdr == InitHdr /\ [][NextHdr]_vars

(***************************************************************************)
(* Claims.                                                                 *)
(***************************************************************************)
EmptyLikeInputs == {Str(<<>>), Str(<<" ">>), Str(<<" ", " ">>), Null, Undefined}

\* C5: both coercers are total (they return a number or NaN for every input)
\* and return NaN, never the number 0, for the empty string, a blank string,
\* null and undefined: toNumberStrict (App.jsx) and toNumber (part_000).
C5_EmptyIsNotNumeric ==
  /\ cStrict # Pending => cStrict.t \in {"num", "nan"}
  /\ cLoose # Pending => cLoose.t \in {"num", "nan"}
  /\ cIn \in EmptyLikeInputs =>
       /\ cStrict # Pending => cStrict = NaN
       /\ cLoose # Pending => cLoose = NaN

\* the numeric part of a text written from parts p
NumericPart(p) ==
  LET mag == DigitsVal(p.int \o p.frac, 0)
  IN  MkNum(IF p.neg THEN -mag ELSE mag, 1, -Len(p.frac))

ClaimMultiplier(suf) ==
  CASE suf \in {"k", "K"} -> 1000
    [] suf \in {"m", "M"} -> 1000000
    [] suf \in {"b", "B"} -> 1000000000
    [] OTHER -> 1

\* C6: for a text that, trimmed and without commas, reads "optional minus,
\* digits, optional fraction, optional suffix k/m/b in either case",
\* toNumberStrict returns the numeric part times 1000, 1000000 or 1000000000
\* (times 1 without suffix); "1,234" gives 1234, "2.5k" 2500, "-1.2M" -1200000.
C6_SuffixMultiplier ==
  /\ (cParts.ok /\ cStrict # Pending) =>
       cStrict = NumMul(NumericPart(cParts), Int2Num(ClaimMultiplier(cParts.suf)))
  /\ (cIn = Str(<<"1", ",", "2", "3", "4">>) /\ cStrict # Pending) =>
       cStrict = Int2Num(1234)
  /\ (cIn = Str(<<"2", ".", "5", "k">>) /\ cStrict # Pending) =>
       cStrict = Int2Num(2500)
  /\ (cIn = Str(<<"-", "1", ".", "2", "M">>) /\ cStrict # Pending) =>
       cStrict = Int2Num(-1200000)

C6_Witness ==
  /\ cIn = Str(<<"-", "1", ".", "2", "M">>)
  /\ cStrict = Int2Num(-1200000)


(***************************************************************************)
(* Aggregation claims, stated on the rows with sums of their own.          *)
(***************************************************************************)
Rendered == chart # Pending

\* the dimension grouped at depth d
DimAt(d) == <<"category", "sub_category", "item">>[d + 1]

\* the rows (by index) that pass the drill-path filter
PassingRows ==
  {i \in DOMAIN rows :
     /\ Len(drillPath) >= 1 => rows[i].category = drillPath[1]
     /\ Len(drillPath) >= 2 => rows[i].sub_category = drillPath[2]}

\* the passing rows of the bucket called name
BucketRows(name) == {i \in PassingRows : rows[i][DimAt(Len(drillPath))] = name}

\* measure m of row i, an absent value counted as 0
ValueOrZero(i, m) == IF rows[i].m[m].t = "num" THEN rows[i].m[m] ELSE Zero

RECURSIVE RowTotal(_, _)
RowTotal(S, m) ==
  IF S = {} THEN Zero
  ELSE LET i == CHOOSE j \in S : TRUE
       IN  NumAdd(ValueOrZero(i, m), RowTotal(S \ {i}, m))

RECURSIVE BucketTotal(_, _)
BucketTotal(bs, m) ==
  IF bs = <<>> THEN Zero ELSE NumAdd(Head(bs).v[m], BucketTotal(Tail(bs), m))

\* C1: in src/src/App.jsx, for every base measure the sum of the measure
\* over the buckets of grouped equals its sum, absent values counted as 0,
\* over the rows that pass the drill-path filter.
C1_Conservation ==
  (variant = "App" /\ Rendered) =>
    \A m \in Measures : NumEq(BucketTotal(chart.grouped, m), RowTotal(PassingRows, m))

\* a drilled level whose filter drops a row and whose bucket sums two rows
C1_Witness ==
  /\ variant = "App" /\ Rendered
  /\ Len(drillPath) = 1
  /\ \E b \in Range(chart.grouped) :
       /\ Cardinality(BucketRows(b.name)) = 2
       /\ NumEq(b.v["Revenue"], Int2Num(150))
  /\ PassingRows # DOMAIN rows

\* the per-row ratios of a set of rows are all defined
RowRatiosDefined(S) == \A i \in S : ValueOrZero(i, "Revenue").n # 0

RECURSIVE RowRatioTotal(_)
RowRatioTotal(S) ==
  IF S = {} THEN Zero
  ELSE LET i == CHOOSE j \in S : TRUE
       IN  NumAdd(NumScale(NumDiv(ValueOrZero(i, "Margin"), ValueOrZero(i, "Revenue")), 2),
                  RowRatioTotal(S \ {i}))

\* the mean of the per-row Margin / Revenue ratios, in percent
MeanRowRatio(S) == NumDiv(RowRatioTotal(S), Int2Num(Cardinality(S)))

\* pct * revenue = 100 * margin
IsRatioOfSums(pct, S) ==
  /\ pct.t = "num"
  /\ NumEq(NumMul(pct, RowTotal(S, "Revenue")), NumScale(RowTotal(S, "Margin"), 2))

\* C2: in src/src/App.jsx, every bucket of grouped whose summed Revenue is
\* not zero carries Margin % = summed Margin / summed Revenue x 100, and
\* not the mean of its rows' own ratios where the two differ.
C2_RatioOfSums ==
  (variant = "App" /\ Rendered) =>
    \A b \in Range(chart.grouped) :
      LET S == BucketRows(b.name)
      IN  RowTotal(S, "Revenue").n # 0 =>
            /\ IsRatioOfSums(b.v[MarginPct], S)
            /\ (RowRatiosDefined(S) /\ ~IsRatioOfSums(MeanRowRatio(S), S))
                 => ~NumEq(b.v[MarginPct], MeanRowRatio(S))

\* a bucket of two rows whose mean ratio (0 %) is not its ratio of sums
C2_Witness ==
  /\ variant = "App" /\ Rendered
  /\ \E b \in Range(chart.grouped) :
       LET S == BucketRows(b.name)
       IN  /\ Cardinality(S) = 2
           /\ RowRatiosDefined(S)
           /\ MeanRowRatio(S).n = 0
           /\ NumEq(NumMul(b.v[MarginPct], Int2Num(3)), Int2Num(20))

\* not a number: undefined or NaN
NotANumber(v) == v.t \in {"undef", "nan"}

\* C3: every bucket whose summed Revenue is zero carries a Margin % that is
\* undefined or NaN and never the number 0, in grouped of src/src/App.jsx
\* and in the chart records of src/unnamed/part_000 and of the upload
\* component of src/unnamed/part_002.
C3_ZeroRevenueUndefined ==
  Rendered =>
    /\ variant = "App" =>
         \A b \in Range(chart.grouped) :
           RowTotal(BucketRows(b.name), "Revenue").n = 0 => NotANumber(b.v[MarginPct])
    /\ variant = "P000" =>
         \A d \in Range(chart.chartData) :
           RowTotal(BucketRows(d.name), "Revenue").n = 0 =>
             /\ NotANumber(d.v[MarginPct])
             /\ selectedMetric = MarginPct => NotANumber(d.value)
    /\ variant = "P002_upload" =>
         \A d \in Range(chart.chartData) :
           (RowTotal(BucketRows(d.name), "Revenue").n = 0 /\ selectedMetric = MarginPct)
             => NotANumber(d.value)

\* C4: with Margin % selected, colorized of src/src/App.jsx gives a bucket
\* whose Margin % is exactly 0 and a bucket whose Margin % is undefined
\* different (color, label) pairs.
C4_ZeroAndUndefinedDiffer ==
  (variant = "App" /\ Rendered /\ selectedMetric = MarginPct) =>
    \A b1, b2 \in Range(chart.colorized) :
      (b1.v[MarginPct] = Zero /\ b2.v[MarginPct] = Undefined)
        => <<b1.color, b1.label>> # <<b2.color, b2.label>>

(***************************************************************************)
(* Drill-path claims, stated on the dashboards driven by SampleFiles.      *)
(***************************************************************************)
DescendOps == {"onBarClick", "handleBarClick"}
AscendOps == {"drillBack", "goBack", "handleChartClick"}
HomeOps == {"drillHome", "goHome"}

\* the last handler run appended its bar's name to the path
Descended == lastOp.op \in DescendOps /\ drillPath = Append(prevPath, lastOp.name)

\* C7: in every reachable state of every component the drill path has at
\* most 3 elements, and at depth 3 there is no bar left to descend with.
C7_DepthAtMostThree ==
  /\ Len(drillPath) <= 3
  /\ Len(drillPath) = 3 => BarNames = {}

\* a bar click at depth 2 has led to depth 3
C7_Witness ==
  /\ Descended
  /\ Len(drillPath) = 3
  /\ leafRows # <<>>

\* the rows of a category, sub-category and item
RowsOfItem(path) ==
  LET at(r) == r.category = path[1] /\ r.sub_category = path[2] /\ r.item = path[3]
  IN  SelectSeq(rows, at)

\* C8: a bar click at depth 2 appends the bar's name to the drill path, which
\* gives depth 3, where the raw rows of that category, sub-category and item
\* are shown; stated for onBarClick of src/src/App.jsx and of
\* src/unnamed/part_002 and for handleBarClick of src/unnamed/part_000.
C8_DescendToLeaf ==
  (/\ variant \in {"App", "P002_leaf", "P000"}
   /\ lastOp.op \in DescendOps
   /\ Len(prevPath) = 2)
    => /\ drillPath = Append(prevPath, lastOp.name)
       /\ isLeafLevel(rows, drillPath)
       /\ leafRows = RowsOfItem(drillPath)

\* C9: Back and a click on the chart background remove exactly the last
\* element of a non-empty path and leave an empty path empty; run right
\* after a descent they restore the path that held before the descent.
C9_Ascend ==
  [][lastOp'.op \in AscendOps =>
       /\ Len(drillPath) > 0 => drillPath' = SubSeq(drillPath, 1, Len(drillPath) - 1)
       /\ Len(drillPath) = 0 => drillPath' = <<>>
       /\ Descended => drillPath' = prevPath]_vars

\* Back at depth 2 has left the first element
C9_Witness ==
  /\ lastOp.op \in AscendOps
  /\ Len(prevPath) = 2
  /\ drillPath = <<prevPath[1]>>

\* C10: a click on breadcrumb k, 0 <= k <= depth, sets the drill path to its
\* first k elements; breadcrumb 0 and Home / Root give the empty path.
C10_ResetToDepth ==
  /\ lastOp.op = "breadcrumbClick" =>
       /\ lastOp.k \in 0..Len(prevPath)
       /\ drillPath = SubSeq(prevPath, 1, lastOp.k)
       /\ lastOp.k = 0 => drillPath = <<>>
  /\ lastOp.op \in HomeOps => drillPath = <<>>

\* breadcrumb 1 clicked at depth 3
C10_Witness ==
  /\ lastOp.op = "breadcrumbClick"
  /\ lastOp.k = 1
  /\ Len(prevPath) = 3
  /\ drillPath = <<prevPath[1]>>

(***************************************************************************)
(* Working-set and catalog claims.                                         *)
(***************************************************************************)
\* some row of the working set carries the values of the path, level by level
PathOccurs ==
  \/ drillPath = <<>>
  \/ \E i \in DOMAIN rows :
       /\ rows[i].category = drillPath[1]
       /\ Len(drillPath) >= 2 => rows[i].sub_category = drillPath[2]
       /\ Len(drillPath) >= 3 => rows[i].item = drillPath[3]

\* C11: the path starts empty, and every step that leaves the row set as it
\* is takes a path that occurs in a row of the working set to a path that
\* occurs in a row of the working set: as long as the rows are not replaced,
\* the filtered row set of a non-empty drill path is never empty.  In the
\* components that clear the path with every load this holds in every state.
C11_PathOccurs ==
  /\ [](variant \notin FileVariants => PathOccurs)
  /\ [][(rows' = rows /\ PathOccurs) => PathOccurs']_vars

\* a descent to depth 2 or more that not every row of the working set passes
C11_Witness ==
  /\ lastOp.op \in DescendOps
  /\ Len(drillPath) >= 2
  /\ PathOccurs
  /\ \E i \in DOMAIN rows : rows[i].sub_category # drillPath[2]

\* a dimension value that is there: a non-empty text, or the number a
\* component has made of it
NonEmpty(v) == (v.t = "str" /\ v.s # <<>>) \/ v.t = "num"

Complete(r) == NonEmpty(r.category) /\ NonEmpty(r.sub_category) /\ NonEmpty(r.item)

\* the rows of the table last loaded that have all three dimensions
CompleteRaw == SelectSeq(lastLoad.raw, Complete)

NoDuplicates(seq) == \A i, j \in DOMAIN seq : seq[i] = seq[j] => i = j

\* some row of the working set has a finite value for measure m
PresentInRows(m) == \E i \in DOMAIN rows : rows[i].m[m].t = "num"

\* C13: after a load through parseAndSet of src/src/App.jsx the metric
\* catalog has no duplicates, holds a base measure exactly when some row of
\* the working set has a finite value for it, holds Margin % exactly when
\* Revenue is present in some row and Margin in some row, and holds nothing
\* else.
C13_Catalog ==
  (variant = "App" /\ lastLoad # Null) =>
    /\ NoDuplicates(availableMetrics)
    /\ \A m \in Measures : m \in Range(availableMetrics) <=> PresentInRows(m)
    /\ MarginPct \in Range(availableMetrics)
         <=> (PresentInRows("Revenue") /\ PresentInRows("Margin"))
    /\ Range(availableMetrics) \subseteq Measures \cup {MarginPct}

\* a working set with Revenue and without Margin: Revenue alone in the catalog
C13_Witness ==
  /\ variant = "App" /\ lastOp.op = "autoloadComplete"
  /\ rows # <<>>
  /\ PresentInRows("Revenue") /\ ~PresentInRows("Margin")
  /\ availableMetrics = <<"Revenue">>

\* C14: once a load has completed, in src/src/App.jsx and in the autoload
\* component of src/unnamed/part_001, the selected metric is a member of the
\* metric catalog, or the catalog is empty and the selected metric is the
\* empty string; this holds after every later selection and drill step too.
C14_SelectedInCatalog ==
  (variant \in {"App", "P001_auto"} /\ lastLoad # Null) =>
    \/ selectedMetric \in Range(availableMetrics)
    \/ availableMetrics = <<>> /\ selectedMetric = ""

LoadOps == {"autoloadComplete", "handleFileDone", "csvLoaded", "uploadLoaded"}

\* the bucket list and the encoded chart records of the state
BucketList ==
  IF variant = "P000" THEN chartData(rows, drillPath, availableMetrics, selectedMetric)
  ELSE grouped(rows, drillPath)

ChartRecords ==
  IF variant = "P000" THEN chartData(rows, drillPath, availableMetrics, selectedMetric)
  ELSE colorized(grouped(rows, drillPath), selectedMetric)

\* a load, in a component of vs, of a table none of whose rows is complete:
\* the handler runs to its end, leaves the error as it is unless the parser
\* reported errors, and leaves everything empty
EmptyLoadStep(vs) ==
  (variant \in vs /\ lastOp'.op \in LoadOps /\ lastLoad' # Null /\ CompleteRaw' = <<>>) =>
    /\ lastLoad'.ok
    /\ ~lastLoad'.errors => error' = error
    /\ rows' = <<>>
    /\ availableMetrics' = <<>>
    /\ BucketList' = <<>>
    /\ ChartRecords' = <<>>

\* C15: loading a table with zero rows, or whose rows are all dropped, raises
\* no error and sets no error state, and the working set, the metric catalog,
\* the bucket list and the encoded chart records are empty afterwards: in
\* src/src/App.jsx (parseAndSet) and in src/unnamed/part_000 (the complete
\* callback of handleFileUpload).
C15_EmptyLoad == [][EmptyLoadStep({"App", "P000"})]_vars

(***************************************************************************)
(* Claims on the levels of the aggregation.                                *)
(***************************************************************************)
\* the bucket list of src/src/App.jsx in the state
Grouped == grouped(rows, drillPath)

\* the bucket list before the last handler ran, for a handler that leaves
\* the rows as they are
GroupedBefore == grouped(rows, prevPath)

\* C16: in src/src/App.jsx, when a click on the bar of bucket b at depth 0
\* or 1 has descended into b, the sums of every base measure over the buckets
\* of the new level add up to b's sum, and a single bucket at the new level
\* has sums identical to b's.
C16_LevelsAddUp ==
  (/\ variant = "App"
   /\ lastOp.op = "onBarClick"
   /\ Len(prevPath) < 2
   /\ drillPath = Append(prevPath, lastOp.name))
    => \A b \in Range(GroupedBefore) :
         b.name = lastOp.name =>
           /\ \A m \in Measures : NumEq(BucketTotal(Grouped, m), b.v[m])
           /\ Len(Grouped) = 1 => \A m \in Measures : Grouped[1].v[m] = b.v[m]

\* rows A/X/I1 (Revenue 100, Margin 20) and A/X/I2 (50, -10): after the
\* descent into "A" the only bucket is "X" with Revenue 150 and Margin 10
C16_Witness ==
  /\ variant = "App"
  /\ lastOp.op = "onBarClick"
  /\ drillPath = <<Str(<<"A">>)>>
  /\ Len(rows) = 2
  /\ Len(Grouped) = 1
  /\ Grouped[1].name = Str(<<"X">>)
  /\ NumEq(Grouped[1].v["Revenue"], Int2Num(150))
  /\ NumEq(Grouped[1].v["Margin"], Int2Num(10))

\* the chart records of src/unnamed/part_000 in the state
ChartData == chartData(rows, drillPath, availableMetrics, selectedMetric)

\* the buckets bs are the groups of the passing rows by the field of the
\* depth: their names are the values of that field, and the sums of a bucket
\* are the sums of the passing rows that carry its name in that field
GroupedByLevel(bs) ==
  /\ {b.name : b \in Range(bs)} = {rows[i][DimAt(Len(drillPath))] : i \in PassingRows}
  /\ \A b \in Range(bs) : \A m \in Measures \cap DOMAIN b.v :
       NumEq(b.v[m], RowTotal(BucketRows(b.name), m))

\* C17: grouped of src/src/App.jsx and chartData of src/unnamed/part_000
\* group the rows that pass the path filter by category at depth 0, by
\* sub_category at depth 1 and by item at depth 2; at depth 3 part_000 has no
\* chart data, its leaf flag is set, and the rows it displays are exactly the
\* rows whose category, sub_category and item equal the three path values.
C17_GroupingField ==
  /\ (variant = "App" /\ rows # <<>>) => GroupedByLevel(Grouped)
  /\ (variant = "P000" /\ rows # <<>> /\ Len(drillPath) <= 2) =>
       /\ GroupedByLevel(ChartData)
       /\ ~isLeafLevel(rows, drillPath)
  /\ (variant = "P000" /\ rows # <<>> /\ Len(drillPath) = 3) =>
       /\ ChartData = <<>>
       /\ isLeafLevel(rows, drillPath)
       /\ leafRows = RowsOfItem(drillPath)

\* part_000 at depth 3 displaying some of its rows and not all of them
C17_Witness ==
  /\ variant = "P000"
  /\ Len(drillPath) = 3
  /\ isLeafLevel(rows, drillPath)
  /\ leafRows # <<>>
  /\ Len(leafRows) < Len(rows)

\* the names of a bucket list, in its order
NamesOf(bs) == [i \in DOMAIN bs |-> bs[i].name]

\* the non-empty values of the grouping field among the passing rows
GroupingValues ==
  {v \in {rows[i][DimAt(Len(drillPath))] : i \in PassingRows} : NonEmpty(v)}

\* C18: the bucket list of grouped (src/src/App.jsx) has exactly one bucket
\* for each distinct non-empty value of the grouping field among the rows
\* that pass the drill-path filter: none is missing, none appears twice.
C18_OneBucketPerValue ==
  (variant = "App" /\ Rendered) =>
    /\ Range(NamesOf(chart.grouped)) = GroupingValues
    /\ NoDuplicates(NamesOf(chart.grouped))

\* three passing rows in two buckets
C18_Witness ==
  /\ variant = "App" /\ Rendered
  /\ Cardinality(PassingRows) = 3
  /\ Len(chart.grouped) = 2
  /\ Cardinality(GroupingValues) = 2

(***************************************************************************)
(* Claims on the chart records and on the order of the buckets.            *)
(***************************************************************************)
\* C19: in every state reached after a load, the encoded chart-record list
\* (colorized in src/src/App.jsx) has exactly one record per bucket of
\* grouped, with the same names in the same order, whatever the selected
\* metric and the buckets' values: no bucket is missing from the chart.
C19_RecordPerBucket ==
  (variant = "App" /\ lastLoad # Null) =>
    NamesOf(ChartRecords) = NamesOf(BucketList)

\* the same, for the states in which a metric is selected
C19_RecordPerBucketOfMetric ==
  (variant = "App" /\ lastLoad # Null /\ selectedMetric # "") =>
    NamesOf(ChartRecords) = NamesOf(BucketList)

\* a loaded working set with buckets and no metric selected
C19_NoMetricSelected ==
  /\ variant = "App" /\ lastLoad # Null
  /\ selectedMetric = ""
  /\ BucketList # <<>>

\* the name of a bucket with its letters in lower case
FoldedName(b) == [i \in DOMAIN b.name.s |-> FoldChar(b.name.s[i])]

\* the place of a lower-case letter or digit in the alphabet
AlphabetIndex(c) == CHOOSE i \in DOMAIN CollationOrder : CollationOrder[i] = c

\* s is not greater than t in alphabetical order
RECURSIVE NotGreater(_, _)
NotGreater(s, t) ==
  \/ s = <<>>
  \/ /\ t # <<>>
     /\ \/ AlphabetIndex(Head(s)) < AlphabetIndex(Head(t))
        \/ Head(s) = Head(t) /\ NotGreater(Tail(s), Tail(t))

Ascending(bs) ==
  \A i \in 1..(Len(bs) - 1) : NotGreater(FoldedName(bs[i]), FoldedName(bs[i + 1]))

PlottedValues(bs, metric) == [i \in DOMAIN bs |-> OrZero(ToNumber(Field(bs[i], metric)))]

Least(vs) == CHOOSE v \in Range(vs) : \A w \in Range(vs) : ~NumLess(w, v)
Greatest(vs) == CHOOSE v \in Range(vs) : \A w \in Range(vs) : ~NumLess(v, w)

\* max - min, replaced by 1 when max = min
Divisor(vs) ==
  IF NumEq(Greatest(vs), Least(vs)) THEN One ELSE NumSub(Greatest(vs), Least(vs))

\* t = (v - min) / (max - min) of each value
GradientPositions(vs) ==
  [i \in DOMAIN vs |-> NumDiv(NumSub(vs[i], Least(vs)), Divisor(vs))]

InUnitInterval(t) == ~NumLess(t, Zero) /\ ~NumLess(One, t)

\* the claim on the records recs encoded from the buckets with values vs
GradientOf(recs, vs) ==
  /\ NumSign(Divisor(vs)) # 0
  /\ \A i \in DOMAIN vs :
       /\ InUnitInterval(GradientPositions(vs)[i])
       /\ recs[i].color = [rgb |-> purpleShade(GradientPositions(vs)[i])]
  /\ NumEq(Greatest(vs), Least(vs)) =>
       \A i, j \in DOMAIN recs : recs[i].color = recs[j].color

\* C21: for a magnitude metric, the gradient position of each bucket,
\* t = (v - min) / (max - min) with the divisor replaced by 1 when max = min,
\* lies in [0, 1] and gives the bucket its colour; the divisor is never
\* zero, and when all bucket values are equal every bucket has one colour.
C21_GradientPosition ==
  (variant = "App" /\ Rendered /\ selectedMetric \in Measures /\ chart.grouped # <<>>) =>
    /\ DOMAIN chart.colorized = DOMAIN chart.grouped
    /\ GradientOf(chart.colorized, PlottedValues(chart.grouped, selectedMetric))

\* two buckets of equal, non-zero value
C21_Witness ==
  /\ variant = "App" /\ Rendered /\ selectedMetric \in Measures
  /\ Len(chart.grouped) = 2
  /\ \E vs \in {PlottedValues(chart.grouped, selectedMetric)} :
       NumEq(vs[1], vs[2]) /\ NumSign(vs[1]) # 0

\* three buckets, one of them strictly between the least and the greatest
C21_Between ==
  /\ variant = "App" /\ Rendered /\ selectedMetric \in Measures
  /\ Len(chart.grouped) = 3
  /\ \E vs \in {PlottedValues(chart.grouped, selectedMetric)} :
       \E i \in DOMAIN vs : NumLess(Least(vs), vs[i]) /\ NumLess(vs[i], Greatest(vs))

(***************************************************************************)
(* Claims on the headers.                                                  *)
(***************************************************************************)
\* the spellings sub-category, sub_category and subcategory in any letter case
AliasSpellings ==
  {h \in SubCategoryHeaders :
     toLowerCase(h) \in {<<"s", "u", "b", "-", "c", "a", "t", "e", "g", "o", "r", "y">>,
                         <<"s", "u", "b", "_", "c", "a", "t", "e", "g", "o", "r", "y">>,
                         <<"s", "u", "b", "c", "a", "t", "e", "g", "o", "r", "y">>}}

\* the rows of the file with non-empty category, sub-category and item
CompleteOf(raw) == SelectSeq(raw, Complete)

\* every complete row of the file is retained, with its sub-category
RetainedUnderHeader ==
  /\ hdrOut.out.ok
  /\ Len(hdrOut.out.rows) = Len(CompleteOf(hdrOut.raw))
  /\ \A i \in DOMAIN hdrOut.out.rows :
       hdrOut.out.rows[i].sub_category = CompleteOf(hdrOut.raw)[i].sub_category

\* C22: under a header spelled sub-category, sub_category or subcategory, in
\* any letter case, every normalizer (normalizeRows of src/src/App.jsx, the
\* complete callback of handleFileUpload in part_000) maps the column to
\* sub_category and retains the rows with non-empty category, sub-category
\* and item.
C22_AliasesAccepted ==
  (hdrOut # Pending /\ hdr \in AliasSpellings) => RetainedUnderHeader

\* the same for normalizeRows of src/src/App.jsx alone
C22_AliasesAcceptedStrict ==
  (variant = "App" /\ hdrOut # Pending /\ hdr \in AliasSpellings) => RetainedUnderHeader

\* the file headed Sub-Category has been normalized by part_000
C22_Hyphenated ==
  /\ variant = "P000" /\ hdrOut # Pending
  /\ hdr = <<"S", "u", "b", "-", "C", "a", "t", "e", "g", "o", "r", "y">>

(***************************************************************************)
(* Frame claims.                                                           *)
(***************************************************************************)
DrillOps == DescendOps \cup AscendOps \cup HomeOps \cup {"breadcrumbClick"}

\* a step of a drill handler, of the metric selection, or one that changes
\* the working set or the catalog of a component that loads on mount
FrameStep ==
  /\ lastOp'.op \in DrillOps =>
       /\ rows' = rows
       /\ availableMetrics' = availableMetrics
       /\ selectedMetric' = selectedMetric
  /\ lastOp'.op = "selectMetric" =>
       /\ rows' = rows
       /\ availableMetrics' = availableMetrics
       /\ drillPath' = drillPath
  /\ (variant \in AutoloadVariants
        /\ (rows' # rows \/ availableMetrics' # availableMetrics)) =>
       lastOp'.op \in LoadOps

\* C23: the drill transitions (descend, ascend, reset) leave the row set, the
\* metric catalog and the selected metric unchanged; a metric selection
\* leaves the row set, the catalog and the drill path unchanged; the row set
\* and the catalog (of src/src/App.jsx and the other components that load on
\* mount) change only in a load.
C23_Frame == [][FrameStep]_vars

\* a metric has been selected on a drilled chart
C23_Witness ==
  /\ variant = "App"
  /\ lastOp.op = "selectMetric"
  /\ rows # <<>> /\ drillPath # <<>>

(***************************************************************************)
(* Claims on the ratio of the upload components.                           *)
(***************************************************************************)
\* (summed Margin / summed Revenue) x 100 over the rows S
RatioOfSums(S) ==
  NumScale(NumDiv(RowTotal(S, "Margin"), RowTotal(S, "Revenue")), 2)

\* the records of buckets whose summed Revenue has the sign sgn carry that
\* ratio as their Margin %
RatioCarried(sgn) ==
  \A d \in Range(chart.chartData) :
    NumSign(RowTotal(BucketRows(d.name), "Revenue")) = sgn =>
      /\ d.v[MarginPct].t = "num"
      /\ NumEq(d.v[MarginPct], RatioOfSums(BucketRows(d.name)))

\* C24: in chartData of the file-upload dashboard (part_000), a bucket whose
\* summed Revenue is negative has the Margin % (summed Margin / summed
\* Revenue) x 100, exactly as a bucket whose summed Revenue is positive.
C24_NegativeRevenueRatio ==
  (variant = "P000" /\ Rendered) => (RatioCarried(-1) /\ RatioCarried(1))

\* the same for the buckets of positive summed Revenue alone
C24_PositiveRevenueRatio ==
  (variant = "P000" /\ Rendered) => RatioCarried(1)

\* a bucket of negative summed Revenue and non-zero summed Margin is charted
C24_NegativeBucket ==
  /\ variant = "P000" /\ Rendered
  /\ \E d \in Range(chart.chartData) :
       /\ NumSign(RowTotal(BucketRows(d.name), "Revenue")) = -1
       /\ NumSign(RowTotal(BucketRows(d.name), "Margin")) # 0

(***************************************************************************)
(* Claims on the loaders of the components that accept a file.             *)
(***************************************************************************)
\* the number of rows of the working set with a number in column m
NumericIn(m) == Cardinality({i \in DOMAIN rows : rows[i].m[m].t = "num"})

\* at least 80% of the rows, and at least one, have a number in column m
EightyPercent(m) == NumericIn(m) > 0 /\ 10 * NumericIn(m) >= 8 * Len(rows)

\* C25: after a load in the component of part_002 990-1278, a measure
\* column is in the metric catalog if and only if at least 80% of the
\* retained rows have a strictly numeric value in it; a column numeric in 3
\* of 4 rows is not a metric.
C25_EightyPercent ==
  (variant = "P002_detect" /\ lastLoad # Null) =>
    \A m \in Measures : m \in Range(availableMetrics) <=> EightyPercent(m)

\* the same with floor(0.8 x rows), at least 1, for the number of rows asked
C25_FloorOfEightyPercent ==
  (variant = "P002_detect" /\ lastLoad # Null) =>
    \A m \in Measures :
      m \in Range(availableMetrics) <=>
        (NumericIn(m) > 0 /\ NumericIn(m) >= (8 * Len(rows)) \div 10)

\* four rows loaded, three of them with a Margin
C25_ThreeOfFour ==
  /\ variant = "P002_detect" /\ lastLoad # Null
  /\ Len(rows) = 4
  /\ NumericIn("Margin") = 3

\* in the components vs, a load that ran to its end leaves the drill path
\* empty, and in every state the drill path occurs in the working set
PathResetIn(vs) ==
  variant \in vs =>
    /\ (lastOp.op \in LoadOps /\ lastLoad.ok) => drillPath = <<>>
    /\ PathOccurs

\* C26: whenever a table is loaded successfully the drill path is reset to
\* the root, and in no reachable state a drill path left over from the
\* previous table filters the new row set down to nothing: handleFileUpload
\* of part_000, handleFile / parseAndSet of part_001 813-1145 and of
\* part_002 990-1278.
C26_PathResetOnLoad == PathResetIn({"P000", "P001_auto", "P002_detect"})

\* the same for handleFileUpload of part_000 alone
C26_PathResetOnUpload == PathResetIn({"P000"})

\* an uploaded table has no row on the path that was drilled before
C26_StalePath ==
  /\ variant \in FileVariants
  /\ lastOp.op = "handleFileDone"
  /\ rows # <<>>
  /\ ~PathOccurs

\* a manual upload has installed its rows while the automatic load is still
\* pending: only an upload can have loaded a table before the automatic
\* load completes
UploadInstalled ==
  /\ variant \in FileVariants
  /\ pending.autoload
  /\ lastLoad # Null

\* C27: in the components that load the default file on mount and accept a
\* manual upload (part_001 813-1145, part_002 990-1278), once an upload has
\* installed its rows, the completion of the still-pending automatic load
\* replaces neither those rows nor their metric catalog.
C27_UploadWins ==
  [][(UploadInstalled /\ lastOp'.op = "autoloadComplete") =>
       (rows' = rows /\ availableMetrics' = availableMetrics)]_vars

(***************************************************************************)
(* Claims on the leaf SKU table.                                           *)
(***************************************************************************)
LeafOnlyAtDepthTwo ==
  variant = "P002_leaf" =>
    /\ selectedLeaf # Null => Len(drillPath) = 2
    /\ Len(drillPath) <= 2

\* C28: in the component with the leaf SKU table (part_002 67-406),
\* selectedLeaf is non-null only while the drill path has length 2, every
\* change of the drill path (descend, Back, Root) clears selectedLeaf, and
\* the drill path never grows beyond length 2.
C28_LeafTable ==
  /\ []LeafOnlyAtDepthTwo
  /\ [][(variant = "P002_leaf" /\ drillPath' # drillPath) => selectedLeaf' = Null]_vars

\* an item bar has been clicked at depth 2: its SKU table is open
C28_Witness ==
  /\ variant = "P002_leaf"
  /\ lastOp.op = "onBarClick"
  /\ selectedLeaf = lastOp.name
  /\ Len(drillPath) = 2

(***************************************************************************)
(* Claims on the failures of a load.                                       *)
(***************************************************************************)
\* the automatic load has failed: the flag is down, there is a message, and
\* the rows, the catalog, the selected metric and the path are those of the
\* mount
FailedAsMounted ==
  lastOp.op = "autoloadFail" =>
    /\ ~isLoading
    /\ error # ""
    /\ rows = <<>>
    /\ availableMetrics = InitialMetrics("App")
    /\ selectedMetric = InitialSelected("App")
    /\ drillPath = <<>>

\* C29: if the automatic load of src/src/App.jsx fails (the fetch throws,
\* the status is not OK, the parser reports a fatal error) while the
\* component is mounted, then isLoading is false, error is a non-empty
\* message and rows, availableMetrics, selectedMetric and drillPath have the
\* values they had before the load started; and whether the load fails or
\* succeeds, eventually isLoading is false.
C29_AutoloadEnds ==
  /\ []FailedAsMounted
  /\ isLoading ~> ~isLoading
  /\ <>[](~isLoading)

\* the automatic load has failed
C29_Witness ==
  /\ variant = "App"
  /\ lastOp.op = "autoloadFail"
  /\ ~isLoading
  /\ error # ""

\* the complete callback of part_000 has thrown: zero rows, or no row with
\* its three dimensions
UploadThrew == variant = "P000" /\ lastOp'.op = "uploadLoaded" /\ ~lastLoad'.ok

\* a throw leaves data, the catalog, the selected metric and the path as
\* they were
ThrowFrame ==
  UploadThrew =>
    /\ rows' = rows
    /\ availableMetrics' = availableMetrics
    /\ selectedMetric' = selectedMetric
    /\ drillPath' = drillPath

\* C30: in handleFileUpload of part_000, when the parse completes with zero
\* rows or with no row having category, sub_category and item, error is set
\* to a message starting with 'Error loading file:' and data,
\* availableMetrics, selectedMetric and drillPath are left unchanged; and
\* isLoading is true from the start of the upload until the parse callback
\* has finished.
C30_UploadFailure ==
  /\ []((variant = "P000" /\ pending.uploads > 0) => isLoading)
  /\ [][ThrowFrame /\ (UploadThrew => error' = "Error loading file")]_vars

\* the frame part alone
C30_ThrowFrame == [][ThrowFrame]_vars

\* a parse of part_000 has ended in a throw
C30_Thrown ==
  /\ variant = "P000"
  /\ lastOp.op = "uploadLoaded"
  /\ ~lastLoad.ok

=============================================================================
